---- MODULE Spec2Model ----
(***************************************************************************)
(* Model of the realtime chat synchronisation engine of                    *)
(* src/src/screens/ChatDetailScreen.tsx: the message timeline and its      *)
(* reconciliation (realtime push, snapshot merge, full fetch, optimistic   *)
(* send with socket-then-REST delivery), the conversation status, the      *)
(* composer gate and the cancellation handshake.                           *)
(*                                                                         *)
(* Every handler of the component runs to completion (one JavaScript task) *)
(* and is one action here; an await inside a handler splits it into the    *)
(* action that starts the request and the actions that handle its          *)
(* outcomes.  React effects that depend on a state variable are part of    *)
(* the action that changes it.                                             *)
(***************************************************************************)
EXTENDS Integers, Sequences, FiniteSets, TLC

VARIABLES
    messages,             \* useState<ChatMessage[]>, line 280
    input,                \* useState<string>, line 281
    selectedAttachment,   \* useState<Attachment | null>, line 282
    conversationStatus,   \* useState<ConversationStatus>, line 287
    isSending,            \* useState<boolean>, line 293
    socketConnected,      \* useState<boolean>, line 294
    socketJoinError,      \* useState<string | null>, line 296
    joinState,            \* the join_conversation of the current connection
    sockets,              \* the sockets the lifecycle effect created, oldest first
    cancelRequestPending, \* useState<boolean>, line 301
    cancelModalVisible,   \* useState<boolean>, line 302
    incomingCancelModalVisible, \* useState<boolean>, line 303
    cancelRequesterName,  \* useState<string>, line 304
    cancelPromptGuard,    \* the conversation ids shouldShowCancelPrompt holds back
    userRole,             \* useState<string | null>, line 289
    readSyncRef,          \* useRef(false), line 277
    syncSeesPending,      \* hasPendingReadReceipts as captured by syncReadReceipts
    syncInFlight,         \* getChatMessages requests of syncReadReceipts not yet settled
    fetchInFlight,        \* a fetchMessages call awaiting its responses
    fetchOptions,         \* its options, and the legacyStatusWarning it captured
    isLoading,            \* useState<boolean>, line 290
    isRefreshing,         \* useState<boolean>, line 291
    loadError,            \* useState<string | null>, line 292
    legacyStatusWarning,  \* useState<string | null>, line 297
    cancelAckPending,     \* a cancel_session_manually emit awaiting its ack
    send,                 \* the running handleSendMessage call: position and locals
    now,                  \* the last value Date.now() returned
    lastEvent             \* history: the handler that ran last, and its input

vars == <<messages, input, selectedAttachment, conversationStatus, isSending,
          socketConnected, socketJoinError, joinState, sockets,
          cancelRequestPending, cancelModalVisible,
          incomingCancelModalVisible, cancelRequesterName, cancelPromptGuard, userRole,
          readSyncRef, syncSeesPending, syncInFlight, fetchInFlight, fetchOptions,
          isLoading, isRefreshing, loadError, legacyStatusWarning, cancelAckPending,
          send, now, lastEvent>>

(***************************************************************************)
(* Bounds of the model.                                                    *)
(***************************************************************************)
\* The timeline holds at most this many entries.
MaxTimeline == 2
\* The socket lifecycle effect runs at most this many times.
MaxSockets == 3
\* The successful joins counted on one socket.
MaxJoins == 2
\* Date.now() and the servers' createdAt values range over 1..MaxTime.
MaxTime == 2
\* A fetched page of messages holds at most this many records.
MaxSnapshot == 2

(***************************************************************************)
(* Values.                                                                 *)
(***************************************************************************)
\* JavaScript's undefined / null / absent field, for string-valued fields.
Undefined == "undefined"
\* An absent numeric field (id, createdAt) of a raw payload.
Absent == 0
\* The viewer (currentUserId, line 288) and the other participant.
Me == "me"
Partner == "partner"
\* The open conversation (conversationId, line 273) and another one.
ConvOpen == "c1"
ConvOther == "c2"
\* The initial value of cancelRequesterName, line 304, and the fallback of line 571.
DefaultRequesterName == "Nguoi dung"
\* LEGACY_STATUS_WARNING_MESSAGE, line 67, and the fallback text of line 964.
LegacyWarning == "legacy warning"
DefaultLoadError == "Khong the tai lich su tro chuyen"
\* Durable ids the server assigns; local placeholder ids are Date.now() values.
ServerIds == {MaxTime + 1, MaxTime + 2}
Times == 1..MaxTime

(***************************************************************************)
(* Raw server payloads.  A payload is the record the server pushes with    *)
(* receive_message or returns from the REST calls; a field the payload     *)
(* lacks is Undefined (Absent for the numeric ones).                       *)
(***************************************************************************)
Payload(i, s, c, st, t, img, conv) ==
    [id |-> i, senderId |-> s, content |-> c, status |-> st, createdAt |-> t,
     imageUrl |-> img, conversationId |-> conv]

\* Well-formed records of the open conversation: the viewer's message
\* (first durable id) and the partner's (second durable id).
MinePayloads ==
    {Payload(MaxTime + 1, Me, "hi", st, t, Undefined, ConvOpen) :
        st \in {"SENT", "READ"}, t \in Times}
PartnerPayloads ==
    {Payload(MaxTime + 2, Partner, "hi", "SENT", t, Undefined, ConvOpen) : t \in Times}
\* The viewer's message recalled (deletion marker; the image is still in the record),
\* the same message with another text, and the same message as an image without text.
VariantPayloads ==
    {Payload(MaxTime + 1, Me, "hi", "DELETED", 1, "img", ConvOpen),
     Payload(MaxTime + 1, Me, "yo", "SENT", 1, Undefined, ConvOpen),
     Payload(MaxTime + 1, Me, Undefined, "SENT", 1, "img", ConvOpen)}
\* Records a REST page can hold.
StoredPayloads == MinePayloads \cup PartnerPayloads \cup VariantPayloads
\* Pushes that lack fields or belong elsewhere: no createdAt, the empty object,
\* a message of another conversation.
OddPayloads ==
    {Payload(MaxTime + 1, Me, "hi", "SENT", Absent, Undefined, ConvOpen),
     Payload(Absent, Undefined, Undefined, Undefined, Absent, Undefined, Undefined),
     Payload(MaxTime + 2, Partner, "hi", "SENT", 1, Undefined, ConvOther)}
PushPayloads == StoredPayloads \cup OddPayloads
\* The viewer's message as the server reports it when its delivery failed
\* (normalizeStatus maps the statuses failed and error, lines 128-130).
FailedPayloads ==
    {Payload(MaxTime + 1, Me, "hi", "FAILED", t, Undefined, ConvOpen) : t \in Times}
NoPayload == Payload(Absent, Undefined, Undefined, Undefined, Absent, Undefined, Undefined)

\* The pages getChatMessages can return: up to MaxSnapshot records, ids distinct.
RECURSIVE SeqsOver(_, _)
SeqsOver(S, n) ==
    IF n = 0 THEN {<<>>}
    ELSE LET shorter == SeqsOver(S, n - 1)
         IN shorter \cup {Append(q, x) : q \in {r \in shorter : Len(r) = n - 1}, x \in S}
DistinctIds(q) == \A i, j \in 1..Len(q) : i # j => q[i].id # q[j].id
Snapshots == {q \in SeqsOver(StoredPayloads, MaxSnapshot) : DistinctIds(q)}

(***************************************************************************)
(* Message model and mapper.                                               *)
(***************************************************************************)
\* String.prototype.toLowerCase on the status vocabulary.
ToLowerCase(s) ==
    CASE s = "SENT" -> "sent"
      [] s = "READ" -> "read"
      [] s = "DELIVERED" -> "delivered"
      [] s = "DELETED" -> "deleted"
      [] s = "UNREAD" -> "unread"
      [] s = "FAILED" -> "failed"
      [] s = "PENDING" -> "pending"
      [] s = "No enum constant MessageStatusEnum.SENT"
            -> "no enum constant messagestatusenum.sent"
      [] s = "Conversation not found" -> "conversation not found"
      [] s = "Network Error" -> "network error"
      [] s = "Request failed with status code 500"
            -> "request failed with status code 500"
      [] s = "Request failed with status code 404"
            -> "request failed with status code 404"
      [] OTHER -> s

\* normalizeStatus, lines 117-142.
normalizeStatus(status) ==
    LET normalized == ToLowerCase(IF status = Undefined THEN "" ELSE status)
    IN CASE normalized \in {"sending", "pending"} -> "sending"
         [] normalized = "delivered" -> "delivered"
         [] normalized = "read" -> "read"
         [] normalized \in {"failed", "error"} -> "failed"
         [] normalized \in {"removed", "deleted", "recalled"} -> "sent"
         [] normalized \in {"unread", "sent", "success"} -> "sent"
         [] OTHER -> "sent"

\* normalizeSystemText, lines 144-152.
normalizeSystemText(text) ==
    IF text = "" THEN text
    ELSE IF ToLowerCase(text) = "chat.session.started" THEN "Phien tro chuyen bat dau"
    ELSE text

\* An entry without attachments (attachments: undefined; the code never stores []).
NoAttachments == <<>>

\* mapApiMessage, lines 206-269; t is the value Date.now() returns in this call.
\* The payloads modelled carry no recalled flag and no video, so isRecalled is
\* the deletion marker alone and the attachments at most the image.  isRecalled
\* of an entry is a boolean here: the optimistic entry's undefined isRecalled
\* reads as FALSE.
mapApiMessage(item, currentUserId, fallbackConversationId, t) ==
    LET senderId == item.senderId
        baseId == IF item.id = Absent THEN t ELSE item.id
        createdAt == IF item.createdAt = Absent THEN t ELSE item.createdAt
        statusRaw == ToLowerCase(IF item.status = Undefined THEN "" ELSE item.status)
        isRecalled == statusRaw = "deleted"
        attachments ==
            IF ~isRecalled /\ item.imageUrl # Undefined /\ item.imageUrl # ""
            THEN <<[id |-> baseId, uri |-> item.imageUrl, kind |-> "image"]>>
            ELSE <<>>
        rawContent == IF item.content = Undefined THEN "" ELSE item.content
        normalizedContent == normalizeSystemText(rawContent)
    IN [id |-> baseId,
        role |-> IF senderId # Undefined /\ currentUserId # Undefined
                    /\ senderId = currentUserId
                 THEN "outgoing" ELSE "incoming",
        content |-> IF isRecalled THEN Undefined
                    ELSE IF normalizedContent = "" THEN Undefined ELSE normalizedContent,
        attachments |-> IF Len(attachments) > 0 THEN attachments ELSE NoAttachments,
        status |-> normalizeStatus(item.status),
        createdAt |-> createdAt,
        isRecalled |-> isRecalled,
        conversationId |-> IF item.conversationId # Undefined THEN item.conversationId
                           ELSE IF fallbackConversationId # Undefined
                                THEN fallbackConversationId ELSE Undefined]

\* Array.prototype.sort((a, b) => a.createdAt - b.createdAt): stable.
RECURSIVE SortByCreatedAt(_)
SortByCreatedAt(list) ==
    IF Len(list) <= 1 THEN list
    ELSE LET front == SortByCreatedAt(SubSeq(list, 1, Len(list) - 1))
             x == list[Len(list)]
             k == Cardinality({i \in 1..Len(front) : front[i].createdAt <= x.createdAt})
         IN SubSeq(front, 1, k) \o <<x>> \o SubSeq(front, k + 1, Len(front))

\* Array.prototype.filter keeping the entries whose id is not the given one.
RECURSIVE WithoutId(_, _)
WithoutId(list, id) ==
    IF list = <<>> THEN <<>>
    ELSE IF list[1].id = id THEN WithoutId(Tail(list), id)
    ELSE <<list[1]>> \o WithoutId(Tail(list), id)

(***************************************************************************)
(* Request errors.  An error is what a rejected request carries: the        *)
(* message of the server's response body (error.response.data.message) and  *)
(* the message of the error itself; Undefined where there is none.          *)
(***************************************************************************)
RequestError(responseMessage, message) ==
    [responseMessage |-> responseMessage, message |-> message]

\* The server rejects a record whose status its enum no longer has; the
\* conversation does not exist; the request did not reach the server; an error
\* without any message.
LegacyEnumError ==
    RequestError("No enum constant MessageStatusEnum.SENT",
                 "Request failed with status code 500")
NotFoundError ==
    RequestError("Conversation not found", "Request failed with status code 404")
NetworkError == RequestError(Undefined, "Network Error")
SilentError == RequestError(Undefined, Undefined)
FetchErrors == {LegacyEnumError, NotFoundError, NetworkError, SilentError}

\* String.prototype.includes on the lower-cased error messages.
Includes(text, needle) ==
    /\ text = "no enum constant messagestatusenum.sent"
    /\ needle \in {"messagestatusenum", "no enum constant", "sent"}

\* No error is taken for a legacy status error.
isLegacyStatusErrorNever(error) == FALSE

\* isLegacyStatusError, lines 102-115.
isLegacyStatusError(error) ==
    LET rawMessage ==
            ToLowerCase(IF error.responseMessage # Undefined THEN error.responseMessage
                        ELSE IF error.message # Undefined THEN error.message
                        ELSE "")
    IN IF rawMessage = "" THEN FALSE
       ELSE \/ Includes(rawMessage, "messagestatusenum")
            \/ Includes(rawMessage, "no enum constant")
            \/ Includes(rawMessage, "sent")

\* The text setLoadError is given, lines 962-965.
LoadErrorMessage(error) ==
    IF error.responseMessage # Undefined THEN error.responseMessage
    ELSE DefaultLoadError

(***************************************************************************)
(* Message reconciliation.                                                 *)
(***************************************************************************)
HasId(list, id) == \E i \in 1..Len(list) : list[i].id = id

\* ApplyIncoming without the test for a known id: a push is promoted or appended
\* whether or not the timeline holds its id.
ApplyIncomingNoIdCheck(prev, normalized) ==
    LET matching == {i \in 1..Len(prev) :
                        /\ prev[i].role = "outgoing"
                        /\ prev[i].status = "sending"
                        /\ prev[i].content = normalized.content}
        pendingIndex == CHOOSE i \in matching : \A j \in matching : i <= j
    IN IF normalized.role = "outgoing" /\ matching # {}
       THEN SortByCreatedAt([prev EXCEPT ![pendingIndex] = normalized])
       ELSE SortByCreatedAt(Append(prev, normalized))

\* ApplyIncoming without the promotion of a placeholder: a push with an unknown
\* id is appended.
ApplyIncomingNoPromotion(prev, normalized) ==
    IF HasId(prev, normalized.id)
    THEN [i \in 1..Len(prev) |->
             IF prev[i].id = normalized.id THEN normalized ELSE prev[i]]
    ELSE SortByCreatedAt(Append(prev, normalized))

\* ApplyIncoming keeping the entry it holds when the id is known, instead of
\* replacing it.
ApplyIncomingKeepsKnown(prev, normalized) ==
    IF HasId(prev, normalized.id)
    THEN prev
    ELSE LET matching == {i \in 1..Len(prev) :
                             /\ prev[i].role = "outgoing"
                             /\ prev[i].status = "sending"
                             /\ prev[i].content = normalized.content}
             pendingIndex == CHOOSE i \in matching : \A j \in matching : i <= j
         IN IF normalized.role = "outgoing" /\ matching # {}
            THEN SortByCreatedAt([prev EXCEPT ![pendingIndex] = normalized])
            ELSE SortByCreatedAt(Append(prev, normalized))

\* ApplyIncoming sorting the timeline after replacing a known entry.
ApplyIncomingResortsKnown(prev, normalized) ==
    IF HasId(prev, normalized.id)
    THEN SortByCreatedAt([i \in 1..Len(prev) |->
                             IF prev[i].id = normalized.id THEN normalized ELSE prev[i]])
    ELSE LET matching == {i \in 1..Len(prev) :
                             /\ prev[i].role = "outgoing"
                             /\ prev[i].status = "sending"
                             /\ prev[i].content = normalized.content}
             pendingIndex == CHOOSE i \in matching : \A j \in matching : i <= j
         IN IF normalized.role = "outgoing" /\ matching # {}
            THEN SortByCreatedAt([prev EXCEPT ![pendingIndex] = normalized])
            ELSE SortByCreatedAt(Append(prev, normalized))

\* The updater of handleIncomingMessage, lines 367-390.
ApplyIncoming(prev, normalized) ==
    IF HasId(prev, normalized.id)
    THEN [i \in 1..Len(prev) |->
             IF prev[i].id = normalized.id THEN normalized ELSE prev[i]]
    ELSE LET matching == {i \in 1..Len(prev) :
                             /\ prev[i].role = "outgoing"
                             /\ prev[i].status = "sending"
                             /\ prev[i].content = normalized.content}
             \* Array.prototype.findIndex: the first match
             pendingIndex == CHOOSE i \in matching : \A j \in matching : i <= j
         IN IF normalized.role = "outgoing" /\ matching # {}
            THEN SortByCreatedAt([prev EXCEPT ![pendingIndex] = normalized])
            ELSE SortByCreatedAt(Append(prev, normalized))

\* The server version that prev.map finds for a local entry, lines 429-433: the
\* record of the page with that id, unless an earlier entry consumed it.
ServerVersionAt(prev, normalized, i) ==
    {k \in 1..Len(normalized) :
        /\ normalized[k].id = prev[i].id
        /\ \A j \in 1..(i - 1) : prev[j].id # prev[i].id}

\* nextMessage, lines 434-441.
Overwritten(message, serverVersion) ==
    [message EXCEPT !.status = serverVersion.status,
                    !.isRecalled = serverVersion.isRecalled,
                    !.content = IF serverVersion.isRecalled THEN Undefined
                                ELSE serverVersion.content,
                    !.attachments = serverVersion.attachments,
                    !.createdAt = serverVersion.createdAt]

\* The entries of a list at the indexes of a set, in list order.
RECURSIVE Picked(_, _, _)
Picked(list, keep, i) ==
    IF i > Len(list) THEN <<>>
    ELSE IF i \in keep THEN <<list[i]>> \o Picked(list, keep, i + 1)
    ELSE Picked(list, keep, i + 1)

\* SnapshotMerge replacing the timeline by the page, as a full fetch does.
SnapshotMergeReplaces(prev, normalized) == normalized

\* SnapshotMerge without the test of changed: the merged list is always returned.
SnapshotMergeAlways(prev, normalized) ==
    LET merged == [i \in 1..Len(prev) |->
                      LET sv == ServerVersionAt(prev, normalized, i)
                      IN IF sv = {} THEN prev[i]
                         ELSE Overwritten(prev[i], normalized[CHOOSE k \in sv : TRUE])]
        left == {k \in 1..Len(normalized) : ~HasId(prev, normalized[k].id)}
    IN SortByCreatedAt(merged \o Picked(normalized, left, 1))

\* The updater of syncReadReceipts, lines 425-462; normalized is the mapped,
\* sorted page (ids distinct).
SnapshotMerge(prev, normalized) ==
    LET merged == [i \in 1..Len(prev) |->
                      LET sv == ServerVersionAt(prev, normalized, i)
                      IN IF sv = {} THEN prev[i]
                         ELSE Overwritten(prev[i], normalized[CHOOSE k \in sv : TRUE])]
        changedLocal == \E i \in 1..Len(prev) :
                            \/ prev[i].status # merged[i].status
                            \/ prev[i].isRecalled # merged[i].isRecalled
        left == {k \in 1..Len(normalized) : ~HasId(prev, normalized[k].id)}
        changed == changedLocal \/ left # {}
    IN IF ~changed THEN prev
       ELSE SortByCreatedAt(merged \o Picked(normalized, left, 1))

\* Mapping a fetched page, lines 415-419 and 945-947.
RECURSIVE MapAll(_, _)
MapAll(page, t) ==
    IF page = <<>> THEN <<>>
    ELSE <<mapApiMessage(page[1], Me, ConvOpen, t)>> \o MapAll(Tail(page), t)

\* The page mapped and left in the order the server returned it.
NormalizedPageUnsorted(page, t) == MapAll(page, t)

\* The page mapped and sorted, lines 415-419 and 945-947.
NormalizedPage(page, t) == SortByCreatedAt(MapAll(page, t))

\* hasPendingReadReceipts, lines 1316-1325.
hasPendingReadReceipts(list) ==
    \E i \in 1..Len(list) :
        /\ list[i].role = "outgoing"
        /\ ~list[i].isRecalled
        /\ list[i].status # "read"

(***************************************************************************)
(* Session status and composer gate.                                       *)
(***************************************************************************)
\* String.prototype.toUpperCase on the status vocabulary.
ToUpperCase(s) ==
    CASE s = "active" -> "ACTIVE"
      [] s = "waiting" -> "WAITING"
      [] s = "ended" -> "ENDED"
      [] s = "cancelled" -> "CANCELLED"
      [] s = "paused" -> "PAUSED"
      [] OTHER -> s

\* normalizeConversationStatus without the fallback for an empty string.
normalizeConversationStatusNoDefault(status) ==
    ToUpperCase(IF status = Undefined THEN "" ELSE status)

\* normalizeConversationStatus, lines 99-100.
normalizeConversationStatus(status) ==
    LET upper == ToUpperCase(IF status = Undefined THEN "" ELSE status)
    IN IF upper = "" THEN "UNKNOWN" ELSE upper

\* Every session taken for an active one.
isConversationActiveAlways == TRUE

\* isConversationActive and isInteractionLocked, lines 306-312.
isConversationActive == normalizeConversationStatus(conversationStatus) = "ACTIVE"
isInteractionLocked == ~isConversationActive

\* isCallDisabled, line 330; callTargetId is partnerCometChatUid, Undefined
\* while the conversation record named none.
isCallDisabled(callTargetId) == isInteractionLocked \/ callTargetId = Undefined

\* String.prototype.trim on the texts the composer holds.
Trim(s) ==
    CASE s = " " -> ""
      [] s = " hi " -> "hi"
      [] OTHER -> s

\* No attachment selected (selectedAttachment: null).
NoSelection == <<>>
\* The attachment a picker returns, lines 1020-1026.
PickedImage == <<[uri |-> "file", kind |-> "image"]>>

\* canSend without the test of the session status.
canSendUngated == (Trim(input) # "" \/ selectedAttachment # NoSelection) /\ ~isSending

\* canSend, lines 1299-1304.
canSend ==
    IF ~isConversationActive THEN FALSE
    ELSE (Trim(input) # "" \/ selectedAttachment # NoSelection) /\ ~isSending

\* The effect of lines 332-336, run when the normalized status changes.
PendingAfterStatus(pending, newStatus) ==
    IF /\ normalizeConversationStatus(newStatus)
            # normalizeConversationStatus(conversationStatus)
       /\ normalizeConversationStatus(newStatus) \in {"CANCELLED", "ENDED"}
    THEN FALSE ELSE pending

\* The effect of lines 1307-1314: a locked session drops the selected attachment.
SelectionAfterStatus(selection, newStatus) ==
    IF normalizeConversationStatus(newStatus) # "ACTIVE" THEN NoSelection ELSE selection

\* A socket as the lifecycle effect leaves it, lines 709-754: open, with each
\* inbound handler registered once.  joined counts, up to MaxJoins, the joins
\* acknowledged with success on it.
NewSocket == [open |-> TRUE, handlers |-> 1, joined |-> 0]

(***************************************************************************)
(* State.                                                                  *)
(***************************************************************************)
\* History: the handler that ran last with its input, and what held when it
\* began: whether it repeats the handler and input before it, whether the
\* timeline knew the payload's id, how long the timeline was, and whether a
\* cancel request was pending.
Event(kind, payload, page) ==
    [kind |-> kind, payload |-> payload, page |-> page,
     again |-> /\ lastEvent.kind = kind
               /\ lastEvent.payload = payload
               /\ lastEvent.page = page,
     known |-> payload.id # Absent /\ HasId(messages, payload.id),
     size |-> Len(messages),
     pending |-> cancelRequestPending]

\* The same for a handshake event, whose data is not a message.
HandshakeEvent(kind, data) ==
    [kind |-> kind, payload |-> data, page |-> <<>>,
     again |-> lastEvent.kind = kind /\ lastEvent.payload = data,
     known |-> FALSE,
     size |-> Len(messages),
     pending |-> cancelRequestPending]

\* The same for the failure of a fetch: the status of the conversation record
\* and the error of the rejected request.
FetchEvent(kind, meta, error) ==
    [kind |-> kind, payload |-> [meta |-> meta, error |-> error], page |-> <<>>,
     again |-> FALSE,
     known |-> FALSE,
     size |-> Len(messages),
     pending |-> cancelRequestPending]

\* No fetchMessages call with a loading indicator is running.
NoFetch == [refreshing |-> FALSE, warning |-> Undefined]

\* No handleSendMessage call is running.  Besides the call's position and
\* locals, send.echo is the durable id under which the server pushed the
\* message of this call back (Absent: no such push was handled), and
\* send.warning is the legacyStatusWarning that the fetchMessages of the call's
\* closure captured.
SendIdle ==
    [pc |-> "idle", localId |-> Absent, text |-> Undefined, connected |-> FALSE,
     echo |-> Absent, warning |-> Undefined]

Init ==
    /\ messages = <<>>
    /\ input = ""
    /\ selectedAttachment = NoSelection
    /\ conversationStatus = "UNKNOWN"
    /\ isSending = FALSE
    /\ socketConnected = FALSE
    /\ socketJoinError = Undefined
    /\ joinState = "none"
    /\ sockets = <<NewSocket>>
    /\ cancelRequestPending = FALSE
    /\ cancelModalVisible = FALSE
    /\ incomingCancelModalVisible = FALSE
    /\ cancelRequesterName = DefaultRequesterName
    /\ cancelPromptGuard = {}
    /\ userRole \in {"CUSTOMER", "SEER"}
    /\ readSyncRef = FALSE
    /\ syncInFlight = 0
    /\ syncSeesPending \in BOOLEAN
    /\ fetchInFlight = FALSE
    /\ fetchOptions = NoFetch
    /\ isLoading = FALSE
    /\ isRefreshing = FALSE
    /\ loadError = Undefined
    /\ legacyStatusWarning = Undefined
    /\ cancelAckPending = FALSE
    /\ send = SendIdle
    /\ now = 0
    /\ lastEvent = [kind |-> "mount", payload |-> NoPayload, page |-> <<>>,
                    again |-> FALSE, known |-> FALSE, size |-> 0, pending |-> FALSE]

sessionVars == <<conversationStatus, cancelRequestPending, cancelModalVisible,
                 cancelAckPending, userRole>>
composerVars == <<input, selectedAttachment>>
promptVars == <<incomingCancelModalVisible, cancelRequesterName, cancelPromptGuard>>
linkVars == <<socketJoinError, joinState, sockets>>
loadVars == <<fetchOptions, isLoading, isRefreshing, loadError, legacyStatusWarning>>
syncVars == <<readSyncRef, syncSeesPending, syncInFlight, fetchInFlight>>

(***************************************************************************)
(* Transport.                                                              *)
(***************************************************************************)
\* handleConnect without the join: the effect of lines 802-831 does not run.
handleConnectWithoutJoin ==
    /\ ~socketConnected
    /\ socketConnected' = TRUE
    /\ socketJoinError' = Undefined
    /\ lastEvent' = Event("connect", NoPayload, <<>>)
    /\ UNCHANGED <<promptVars, loadVars, joinState, sockets, messages, composerVars,
                   sessionVars, isSending, syncVars, send, now>>

\* handleConnect, lines 724-728, and the join effect it starts, lines 802-824:
\* socketConnected and socketReadyVersion change, so the effect emits
\* join_conversation on the socket and waits for its acknowledgment.
handleConnect ==
    /\ ~socketConnected
    /\ socketConnected' = TRUE
    /\ socketJoinError' = Undefined
    /\ joinState' = "pending"
    /\ lastEvent' = Event("connect", NoPayload, <<>>)
    /\ UNCHANGED <<promptVars, loadVars, sockets, messages, composerVars, sessionVars,
                   isSending, syncVars, send, now>>

\* handleDisconnect, lines 730-733, and the cleanup of the join effect, lines
\* 826-829: the acknowledgment of a join under way is ignored from here on.
handleDisconnect ==
    /\ socketConnected
    /\ socketConnected' = FALSE
    /\ joinState' = "none"
    /\ lastEvent' = Event("disconnect", NoPayload, <<>>)
    /\ UNCHANGED <<promptVars, loadVars, socketJoinError, sockets, messages, composerVars,
                   sessionVars, isSending, syncVars, send, now>>

\* handleConnectError, lines 735-740: a connection attempt failed.
handleConnectError ==
    /\ ~socketConnected
    /\ socketJoinError' = "connect_error"
    /\ lastEvent' = Event("connect_error", NoPayload, <<>>)
    /\ UNCHANGED <<promptVars, loadVars, joinState, sockets, messages, composerVars,
                   sessionVars, isSending, socketConnected, syncVars, send, now>>

\* The acknowledgment of join_conversation, lines 814-823: on success the error
\* is cleared and mark_read is emitted, otherwise the error is shown.
joinAck(status) ==
    /\ socketConnected
    /\ joinState = "pending"
    /\ joinState' = IF status = "success" THEN "joined" ELSE "failed"
    /\ socketJoinError' = IF status = "success" THEN Undefined ELSE "join_error"
    /\ sockets' = [sockets EXCEPT ![Len(sockets)].joined =
                       IF status = "success" /\ @ < MaxJoins THEN @ + 1 ELSE @]
    /\ lastEvent' = Event(IF status = "success" THEN "join_ack_success"
                          ELSE "join_ack_failure", NoPayload, <<>>)
    /\ UNCHANGED <<promptVars, loadVars, messages, composerVars, sessionVars, isSending,
                   socketConnected, syncVars, send, now>>

\* The cleanup of the socket lifecycle effect without socket.off: the
\* handlers stay on the socket that is torn down.
CleanedUpKeepsHandlers(socket) == [socket EXCEPT !.open = FALSE]

\* The cleanup of the socket lifecycle effect, lines 756-775: every handler is
\* taken off the socket, then the socket is disconnected.
CleanedUp(socket) == [socket EXCEPT !.handlers = 0, !.open = FALSE]

\* The socket lifecycle effect run again, lines 700-788, because one of its
\* dependencies (a handler, currentUserId) changed: the cleanup of the last
\* run, then a new socket with every handler on it once; socketConnected is
\* false until the new socket connects, and the join effect is cleaned up.
socketEffectRestart ==
    /\ Len(sockets) < MaxSockets
    /\ sockets' = Append([i \in 1..Len(sockets) |->
                             IF i = Len(sockets) THEN CleanedUp(sockets[i])
                             ELSE sockets[i]],
                         NewSocket)
    /\ socketConnected' = FALSE
    /\ socketJoinError' = Undefined
    /\ joinState' = "none"
    /\ lastEvent' = Event("socket_restart", NoPayload, <<>>)
    /\ UNCHANGED <<promptVars, loadVars, messages, composerVars, sessionVars, isSending,
                   syncVars, send, now>>

(***************************************************************************)
(* Realtime push.                                                          *)
(***************************************************************************)
\* The server pushes the message of the running send to the sender too: a push
\* of the viewer's message with the text sent and an id not seen before, while
\* the emit or the REST request is in flight, is taken to be that message.
EchoAfter(payload) ==
    IF /\ send.pc \in {"socket", "rest"}
       /\ send.echo = Absent
       /\ payload.id # Absent
       /\ payload.senderId = Me
       /\ payload.content = send.text
       /\ ~HasId(messages, payload.id)
    THEN payload.id ELSE send.echo

\* handleIncomingMessage, lines 350-400, for a receive_message carrying payload.
\* mapApiMessage reads Date.now() only for a payload that lacks its id or its
\* createdAt; t is the value it gets.  The socket delivers events only while it
\* is connected.
handleIncomingMessage(payload, t) ==
    /\ socketConnected
    /\ IF payload.id = Absent \/ payload.createdAt = Absent
       THEN t \in Times /\ t >= now
       ELSE t = now
    /\ LET normalized == mapApiMessage(payload, Me, ConvOpen, t)
           next == ApplyIncoming(messages, normalized)
       IN /\ Len(next) <= MaxTimeline
          /\ messages' = next
    /\ send' = [send EXCEPT !.echo = EchoAfter(payload)]
    /\ now' = t
    /\ lastEvent' = Event("receive_message", payload, <<>>)
    /\ UNCHANGED <<promptVars, loadVars, linkVars, composerVars, sessionVars, isSending,
                   socketConnected, syncVars>>

(***************************************************************************)
(* Read-receipt sync.                                                      *)
(***************************************************************************)
\* syncReadReceiptsStart without the test of readSyncRef.current: a second
\* request is made while one is in flight.
syncReadReceiptsStartUnguarded ==
    /\ syncSeesPending
    /\ syncInFlight <= 1
    /\ readSyncRef' = TRUE
    /\ syncInFlight' = syncInFlight + 1
    /\ lastEvent' = Event("sync_start", NoPayload, <<>>)
    /\ UNCHANGED <<promptVars, loadVars, linkVars, messages, composerVars, sessionVars,
                   isSending, socketConnected, syncSeesPending, fetchInFlight, send, now>>

\* syncReadReceipts up to its await, lines 402-413.  The callback reads
\* hasPendingReadReceipts before the component initialises it (declared at line
\* 1316, listed in the dependency array at line 468), so the callback is not
\* renewed when the timeline changes and tests the value it captured.
syncReadReceiptsStart ==
    /\ syncSeesPending
    /\ ~readSyncRef
    /\ readSyncRef' = TRUE
    /\ syncInFlight' = syncInFlight + 1
    /\ lastEvent' = Event("sync_start", NoPayload, <<>>)
    /\ UNCHANGED <<promptVars, loadVars, linkVars, messages, composerVars, sessionVars,
                   isSending, socketConnected, syncSeesPending, fetchInFlight, send, now>>

\* syncReadReceipts called (timer tick, first call of the effect, user_joined)
\* while a sync is in flight or while it sees nothing pending: the early return
\* of lines 403-405.
syncReadReceiptsSkipped ==
    /\ ~syncSeesPending \/ readSyncRef
    /\ lastEvent' = Event("sync_skipped", NoPayload, <<>>)
    /\ UNCHANGED <<promptVars, loadVars, linkVars, messages, composerVars, sessionVars,
                   isSending, socketConnected, syncVars, send, now>>

\* syncReadReceipts after getChatMessages resolved with a page, lines 414-467.
syncReadReceiptsDone(page) ==
    /\ syncInFlight > 0
    /\ LET normalized == NormalizedPage(page, now)
           next == IF Len(normalized) = 0 THEN messages
                   ELSE SnapshotMerge(messages, normalized)
       IN /\ Len(next) <= MaxTimeline
          /\ messages' = next
    /\ readSyncRef' = FALSE
    /\ syncInFlight' = syncInFlight - 1
    /\ lastEvent' = Event("sync_done", NoPayload, page)
    /\ UNCHANGED <<promptVars, loadVars, linkVars, composerVars, sessionVars, isSending,
                   socketConnected, syncSeesPending, fetchInFlight, send, now>>

\* syncReadReceipts after getChatMessages rejected, lines 463-467.
syncReadReceiptsFailed ==
    /\ syncInFlight > 0
    /\ readSyncRef' = FALSE
    /\ syncInFlight' = syncInFlight - 1
    /\ lastEvent' = Event("sync_failed", NoPayload, <<>>)
    /\ UNCHANGED <<promptVars, loadVars, linkVars, messages, composerVars, sessionVars,
                   isSending, socketConnected, syncSeesPending, fetchInFlight, send, now>>

(***************************************************************************)
(* Full fetch.                                                             *)
(***************************************************************************)
\* The statuses getChatConversation reports; Undefined: no conversation record,
\* or one without a status.
MetaStatuses == {"ACTIVE", "ended", Undefined}
\* The conversation request was rejected (fetchMessages throws its reason,
\* lines 867-869).
RequestRejected == "request rejected"

\* The status kept after the conversation record was read, lines 871-876: an
\* absent or empty status of the record sets nothing.
StatusAfter(meta) ==
    IF meta \in {Undefined, "", RequestRejected} THEN conversationStatus
    ELSE normalizeConversationStatus(meta)

\* fetchMessages with both requests fulfilled, lines 862-955: the status of the
\* conversation record, then the page replaces the timeline and the warning
\* the callback captured (warning) is cleared.
Fetched(meta, page, warning) ==
    LET status == StatusAfter(meta)
    IN /\ conversationStatus' = status
       /\ cancelRequestPending' = PendingAfterStatus(cancelRequestPending, status)
       /\ selectedAttachment' = SelectionAfterStatus(selectedAttachment, status)
       /\ messages' = NormalizedPage(page, now)
       /\ legacyStatusWarning' = IF warning # Undefined THEN Undefined
                                 ELSE legacyStatusWarning
       /\ loadError' = loadError

\* fetchMessages with a request rejected, lines 862-966.  The message request
\* rejected with error: the status of the conversation record is taken, a
\* legacy error sets the warning (lines 938-939, 953-955) and any other is
\* thrown to the catch (lines 940-941, 956-966).  The conversation request
\* rejected with error (meta = RequestRejected): its reason is thrown before
\* the record and the page are read.  The timeline is kept.
FetchRejected(meta, error) ==
    LET status == StatusAfter(meta)
        thrown == meta = RequestRejected \/ ~isLegacyStatusError(error)
    IN /\ conversationStatus' = status
       /\ cancelRequestPending' = PendingAfterStatus(cancelRequestPending, status)
       /\ selectedAttachment' = SelectionAfterStatus(selectedAttachment, status)
       /\ messages' = messages
       /\ legacyStatusWarning' = IF isLegacyStatusError(error) THEN LegacyWarning
                                 ELSE legacyStatusWarning
       /\ loadError' = IF ~thrown THEN loadError
                       ELSE IF isLegacyStatusError(error) THEN Undefined
                       ELSE LoadErrorMessage(error)

\* fetchMessages() up to its await (mount, retry), lines 833-860.
fetchMessagesStart ==
    /\ ~fetchInFlight
    /\ fetchInFlight' = TRUE
    /\ fetchOptions' = [refreshing |-> FALSE, warning |-> legacyStatusWarning]
    /\ isLoading' = TRUE
    /\ loadError' = Undefined
    /\ lastEvent' = Event("fetch_start", NoPayload, <<>>)
    /\ UNCHANGED <<promptVars, linkVars, messages, composerVars, sessionVars, isSending,
                   socketConnected, readSyncRef, syncSeesPending, syncInFlight,
                   isRefreshing, legacyStatusWarning, send, now>>

\* fetchMessages({refreshing: true}) up to its await (pull to refresh, line
\* 1665), lines 833-860.
refreshMessagesStart ==
    /\ ~fetchInFlight
    /\ fetchInFlight' = TRUE
    /\ fetchOptions' = [refreshing |-> TRUE, warning |-> legacyStatusWarning]
    /\ isRefreshing' = TRUE
    /\ loadError' = Undefined
    /\ lastEvent' = Event("refresh_start", NoPayload, <<>>)
    /\ UNCHANGED <<promptVars, linkVars, messages, composerVars, sessionVars, isSending,
                   socketConnected, readSyncRef, syncSeesPending, syncInFlight, isLoading,
                   legacyStatusWarning, send, now>>

\* The finally of fetchMessages, lines 967-973.
LoadingAfter == IF fetchOptions.refreshing THEN isLoading ELSE FALSE
RefreshingAfter == IF fetchOptions.refreshing THEN FALSE ELSE isRefreshing

fetchMessagesDone(meta, page) ==
    /\ fetchInFlight
    /\ Fetched(meta, page, fetchOptions.warning)
    /\ fetchInFlight' = FALSE
    /\ fetchOptions' = NoFetch
    /\ isLoading' = LoadingAfter
    /\ isRefreshing' = RefreshingAfter
    /\ lastEvent' = Event("fetch_done", NoPayload, page)
    /\ UNCHANGED <<promptVars, linkVars, input, cancelModalVisible, cancelAckPending,
                   userRole, isSending, socketConnected, readSyncRef, syncSeesPending,
                   syncInFlight, send, now>>

fetchMessagesFailed(meta, error) ==
    /\ fetchInFlight
    /\ FetchRejected(meta, error)
    /\ fetchInFlight' = FALSE
    /\ fetchOptions' = NoFetch
    /\ isLoading' = LoadingAfter
    /\ isRefreshing' = RefreshingAfter
    /\ lastEvent' = FetchEvent("fetch_failed", meta, error)
    /\ UNCHANGED <<promptVars, linkVars, input, cancelModalVisible, cancelAckPending,
                   userRole, isSending, socketConnected, readSyncRef, syncSeesPending,
                   syncInFlight, send, now>>

(***************************************************************************)
(* Composer.                                                               *)
(***************************************************************************)
\* onChangeText={setInput}; the field is editable only while ACTIVE, line 1746.
setInput(text) ==
    /\ isConversationActive
    /\ input # text
    /\ input' = text
    /\ lastEvent' = Event("input", NoPayload, <<>>)
    /\ UNCHANGED <<promptVars, loadVars, linkVars, messages, selectedAttachment,
                   sessionVars, isSending, socketConnected, syncVars, send, now>>

\* handlePickImage, lines 999-1031, the picker returning a file.
handlePickImage ==
    /\ ~isInteractionLocked
    /\ selectedAttachment' = PickedImage
    /\ lastEvent' = Event("pick", NoPayload, <<>>)
    /\ UNCHANGED <<promptVars, loadVars, linkVars, messages, input, sessionVars,
                   isSending, socketConnected, syncVars, send, now>>

\* handleRemoveAttachment, lines 1113-1115.
handleRemoveAttachment ==
    /\ selectedAttachment # NoSelection
    /\ selectedAttachment' = NoSelection
    /\ lastEvent' = Event("unpick", NoPayload, <<>>)
    /\ UNCHANGED <<promptVars, loadVars, linkVars, messages, input, sessionVars,
                   isSending, socketConnected, syncVars, send, now>>

(***************************************************************************)
(* Sending.  send.pc is the await handleSendMessage is suspended at:        *)
(* "upload" (uploadChatFile), "socket" (emitSocketMessage), "rest"          *)
(* (sendChatMessage), "refetch" (fetchMessages({silent: true})).            *)
(***************************************************************************)
\* optimisticMessage, lines 1138-1149.
OptimisticMessage(localId, trimmed, attachment, t) ==
    [id |-> localId,
     role |-> "outgoing",
     content |-> IF trimmed # "" THEN trimmed ELSE Undefined,
     attachments |-> attachment,
     status |-> "sending",
     createdAt |-> t,
     isRecalled |-> FALSE,
     conversationId |-> ConvOpen]

\* The first await of a send: the upload when an attachment is selected, else
\* the socket emit when the connection is live, else the REST request
\* (lines 1159, 1196, 1205).
FirstAwait(attachment) ==
    IF attachment # NoSelection THEN "upload"
    ELSE IF socketConnected THEN "socket" ELSE "rest"

\* handleSendMessage without the test of isSending: a send starts while
\* another is running.
handleSendMessageWhileSending(t) ==
    /\ ~(Trim(input) = "" /\ selectedAttachment = NoSelection)
    /\ isConversationActive
    /\ t \in Times /\ t > now
    /\ Len(messages) < MaxTimeline
    /\ messages' = Append(messages,
                          OptimisticMessage(t, Trim(input), selectedAttachment, t))
    /\ input' = ""
    /\ selectedAttachment' = NoSelection
    /\ isSending' = TRUE
    /\ send' = [pc |-> FirstAwait(selectedAttachment), localId |-> t,
                text |-> IF Trim(input) # "" THEN Trim(input) ELSE Undefined,
                connected |-> socketConnected,
                echo |-> Absent,
                warning |-> legacyStatusWarning]
    /\ now' = t
    /\ lastEvent' = Event("send", NoPayload, <<>>)
    /\ UNCHANGED <<promptVars, loadVars, linkVars, sessionVars, socketConnected,
                   syncVars>>

\* handleSendMessage up to its first await, lines 1121-1198; t is Date.now(),
\* later than the value any earlier handler read.
handleSendMessage(t) ==
    /\ ~(isSending \/ (Trim(input) = "" /\ selectedAttachment = NoSelection))
    /\ isConversationActive
    /\ t \in Times /\ t > now
    /\ Len(messages) < MaxTimeline
    /\ messages' = Append(messages,
                          OptimisticMessage(t, Trim(input), selectedAttachment, t))
    /\ input' = ""
    /\ selectedAttachment' = NoSelection
    /\ isSending' = TRUE
    /\ send' = [pc |-> FirstAwait(selectedAttachment), localId |-> t,
                text |-> IF Trim(input) # "" THEN Trim(input) ELSE Undefined,
                connected |-> socketConnected,
                echo |-> Absent,
                warning |-> legacyStatusWarning]
    /\ now' = t
    /\ lastEvent' = Event("send", NoPayload, <<>>)
    /\ UNCHANGED <<promptVars, loadVars, linkVars, sessionVars, socketConnected,
                   syncVars>>

\* handleSendMessage returning early, lines 1125-1136: a send is running,
\* there is nothing to send, or the session is not active.
handleSendMessageRejected ==
    /\ \/ isSending \/ (Trim(input) = "" /\ selectedAttachment = NoSelection)
       \/ ~isConversationActive
    /\ lastEvent' = Event("send_rejected", NoPayload, <<>>)
    /\ UNCHANGED <<promptVars, loadVars, linkVars, messages, composerVars, sessionVars,
                   isSending, socketConnected, syncVars, send, now>>

\* The upload resolved, lines 1177-1198.  The test of line 1196 reads the
\* socketConnected the callback captured when the send began (send.connected).
uploadDone ==
    /\ send.pc = "upload"
    /\ send' = [send EXCEPT !.pc = IF send.connected THEN "socket" ELSE "rest"]
    /\ lastEvent' = Event("upload_done", NoPayload, <<>>)
    /\ UNCHANGED <<promptVars, loadVars, linkVars, messages, composerVars, sessionVars,
                   isSending, socketConnected, syncVars, now>>

\* MarkFailed marking every entry in status sending, whatever its id.
MarkFailedEverySending(list, localId) ==
    [i \in 1..Len(list) |->
        IF list[i].status = "sending" THEN [list[i] EXCEPT !.status = "failed"]
        ELSE list[i]]

\* The catch and finally of handleSendMessage, lines 1221-1235.
MarkFailed(list, localId) ==
    [i \in 1..Len(list) |->
        IF list[i].id = localId THEN [list[i] EXCEPT !.status = "failed"] ELSE list[i]]

\* uploadChatFile or sendChatMessage rejected: catch, finally.
sendFailed ==
    /\ send.pc \in {"upload", "rest"}
    /\ messages' = MarkFailed(messages, send.localId)
    /\ isSending' = FALSE
    /\ send' = SendIdle
    /\ lastEvent' = Event(IF send.pc = "rest" THEN "rest_failed" ELSE "upload_failed",
                          NoPayload, <<>>)
    /\ UNCHANGED <<promptVars, loadVars, linkVars, composerVars, sessionVars,
                   socketConnected, syncVars, now>>

\* socketAckSuccess without sentViaSocket being set: the REST request follows.
socketAckSuccessFallsThrough ==
    /\ send.pc = "socket"
    /\ send' = [send EXCEPT !.pc = "rest"]
    /\ lastEvent' = Event("socket_ack_success", NoPayload, <<>>)
    /\ UNCHANGED <<promptVars, loadVars, linkVars, messages, composerVars, sessionVars,
                   isSending, socketConnected, syncVars, now>>

\* The acknowledgment of send_message says success, lines 485-486 and 1199:
\* sentViaSocket, the REST branch is skipped, finally.
socketAckSuccess ==
    /\ send.pc = "socket"
    /\ isSending' = FALSE
    /\ send' = SendIdle
    /\ lastEvent' = Event("socket_ack_success", NoPayload, <<>>)
    /\ UNCHANGED <<promptVars, loadVars, linkVars, messages, composerVars, sessionVars,
                   socketConnected, syncVars, now>>

\* The acknowledgment says anything else, lines 487-489 and 1200-1206: the
\* rejection is caught and sendChatMessage is called.  The server stored no
\* message for the emit.
socketAckRejected ==
    /\ send.pc = "socket"
    /\ send' = [send EXCEPT !.pc = "rest", !.echo = Absent]
    /\ lastEvent' = Event("socket_ack_rejected", NoPayload, <<>>)
    /\ UNCHANGED <<promptVars, loadVars, linkVars, messages, composerVars, sessionVars,
                   isSending, socketConnected, syncVars, now>>

\* The durable records sendChatMessage can return for the text sent: the
\* viewer's message under the id the server pushed it with, or under an id the
\* timeline does not hold.
RestReplies(text) ==
    {p \in StoredPayloads :
        /\ p.senderId = Me /\ p.content = text /\ p.status = "SENT"
        /\ (p.id = send.echo \/ ~HasId(messages, p.id))}

\* The updater of lines 1211-1216.
Confirmed(prev, localId, normalizedMessage) ==
    SortByCreatedAt(Append(WithoutId(prev, localId), normalizedMessage))

\* sendChatMessage resolved with the durable record, lines 1206-1216, finally.
restConfirmed(apiMessage) ==
    /\ send.pc = "rest"
    /\ LET next == Confirmed(messages, send.localId,
                             mapApiMessage(apiMessage, Me, ConvOpen, now))
       IN /\ Len(next) <= MaxTimeline
          /\ messages' = next
    /\ isSending' = FALSE
    /\ send' = SendIdle
    /\ lastEvent' = Event("rest_confirmed", apiMessage, <<>>)
    /\ UNCHANGED <<promptVars, loadVars, linkVars, composerVars, sessionVars,
                   socketConnected, syncVars, now>>

\* sendChatMessage resolved without a record, lines 1217-1219: the silent
\* fetch is called (it clears loadError before its await, line 848) and awaited.
restEmpty ==
    /\ send.pc = "rest"
    /\ send' = [send EXCEPT !.pc = "refetch"]
    /\ loadError' = Undefined
    /\ lastEvent' = Event("rest_empty", NoPayload, <<>>)
    /\ UNCHANGED <<promptVars, linkVars, messages, composerVars, sessionVars, isSending,
                   socketConnected, syncVars, fetchOptions, isLoading, isRefreshing,
                   legacyStatusWarning, now>>

\* The silent fetch of line 1218 finished (fetchMessages catches its own
\* errors), finally.
refetchDone(meta, page) ==
    /\ send.pc = "refetch"
    /\ Fetched(meta, page, send.warning)
    /\ isSending' = FALSE
    /\ send' = SendIdle
    /\ lastEvent' = Event("refetch_done", NoPayload, page)
    /\ UNCHANGED <<promptVars, linkVars, input, cancelModalVisible, cancelAckPending,
                   userRole, socketConnected, syncVars, fetchOptions, isLoading,
                   isRefreshing, now>>

refetchFailed(meta, error) ==
    /\ send.pc = "refetch"
    /\ FetchRejected(meta, error)
    /\ isSending' = FALSE
    /\ send' = SendIdle
    /\ lastEvent' = FetchEvent("refetch_failed", meta, error)
    /\ UNCHANGED <<promptVars, linkVars, input, cancelModalVisible, cancelAckPending,
                   userRole, socketConnected, syncVars, fetchOptions, isLoading,
                   isRefreshing, now>>

\* handleDeleteMessage confirmed and deleteChatMessage resolved, lines 1260-1286,
\* for the entry at index i.
handleDeleteMessage(i) ==
    /\ i \in 1..Len(messages)
    /\ messages[i].status # "sending"
    /\ messages' = WithoutId(messages, messages[i].id)
    /\ lastEvent' = Event("delete", NoPayload, <<>>)
    /\ UNCHANGED <<promptVars, loadVars, linkVars, composerVars, sessionVars, isSending,
                   socketConnected, syncVars, send, now>>

(***************************************************************************)
(* Session events.                                                         *)
(***************************************************************************)
\* handleSessionActivated, lines 495-503.
handleSessionActivated ==
    /\ socketConnected
    /\ conversationStatus' = "ACTIVE"
    /\ cancelRequestPending' = PendingAfterStatus(cancelRequestPending, "ACTIVE")
    /\ selectedAttachment' = SelectionAfterStatus(selectedAttachment, "ACTIVE")
    /\ lastEvent' = Event("session_activated", NoPayload, <<>>)
    /\ UNCHANGED <<promptVars, loadVars, linkVars, messages, input, cancelModalVisible,
                   cancelAckPending, userRole, isSending, socketConnected, syncVars, send,
                   now>>

\* handleSessionCanceled, lines 505-518 (session_canceled and session_cancelled).
handleSessionCanceled ==
    /\ socketConnected
    /\ conversationStatus' = "CANCELLED"
    /\ cancelRequestPending' = FALSE
    /\ selectedAttachment' = SelectionAfterStatus(selectedAttachment, "CANCELLED")
    /\ lastEvent' = Event("session_canceled", NoPayload, <<>>)
    /\ UNCHANGED <<promptVars, loadVars, linkVars, messages, input, cancelModalVisible,
                   cancelAckPending, userRole, isSending, socketConnected, syncVars, send,
                   now>>

\* handleSessionEnded, lines 530-538.
handleSessionEnded ==
    /\ socketConnected
    /\ conversationStatus' = "ENDED"
    /\ cancelRequestPending' = PendingAfterStatus(cancelRequestPending, "ENDED")
    /\ selectedAttachment' = SelectionAfterStatus(selectedAttachment, "ENDED")
    /\ lastEvent' = Event("session_ended", NoPayload, <<>>)
    /\ UNCHANGED <<promptVars, loadVars, linkVars, messages, input, cancelModalVisible,
                   cancelAckPending, userRole, isSending, socketConnected, syncVars, send,
                   now>>

(***************************************************************************)
(* Cancellation handshake, requester side.                                 *)
(***************************************************************************)
\* canCancelSession and cancelButtonDisabled, lines 337-341.
isCustomer == userRole = "CUSTOMER"
canCancelSession ==
    /\ isCustomer
    /\ normalizeConversationStatus(conversationStatus) \in {"ACTIVE", "WAITING"}
cancelButtonDisabled == cancelRequestPending \/ ~canCancelSession

\* handleRequestCancelSession, lines 606-618, from the header button
\* (disabled={cancelButtonDisabled}, line 1623).
handleRequestCancelSession ==
    /\ ~cancelButtonDisabled
    /\ socketConnected
    /\ ~cancelModalVisible
    /\ cancelModalVisible' = TRUE
    /\ lastEvent' = Event("request_cancel", NoPayload, <<>>)
    /\ UNCHANGED <<promptVars, loadVars, linkVars, messages, composerVars,
                   conversationStatus, cancelRequestPending, cancelAckPending, userRole,
                   isSending, socketConnected, syncVars, send, now>>

\* The cancel modal dismissed, lines 1536-1552.
dismissCancelModal ==
    /\ cancelModalVisible
    /\ cancelModalVisible' = FALSE
    /\ lastEvent' = Event("dismiss_cancel", NoPayload, <<>>)
    /\ UNCHANGED <<promptVars, loadVars, linkVars, messages, composerVars,
                   conversationStatus, cancelRequestPending, cancelAckPending, userRole,
                   isSending, socketConnected, syncVars, send, now>>

\* confirmCancelSession marking the session cancelled before the server says so.
confirmCancelSessionSetsStatus ==
    /\ cancelModalVisible
    /\ ~cancelRequestPending
    /\ ~cancelAckPending
    /\ cancelRequestPending' = TRUE
    /\ cancelAckPending' = TRUE
    /\ conversationStatus' = "CANCELLED"
    /\ lastEvent' = Event("confirm_cancel", NoPayload, <<>>)
    /\ UNCHANGED <<promptVars, loadVars, linkVars, messages, composerVars,
                   cancelModalVisible, userRole, isSending, socketConnected, syncVars,
                   send, now>>

\* confirmCancelSession up to the emit, lines 620-630, from the modal's button
\* (disabled={cancelRequestPending}, line 1560).  One acknowledgment is
\* outstanding at a time.
confirmCancelSession ==
    /\ cancelModalVisible
    /\ ~cancelRequestPending
    /\ ~cancelAckPending
    /\ cancelRequestPending' = TRUE
    /\ cancelAckPending' = TRUE
    /\ lastEvent' = Event("confirm_cancel", NoPayload, <<>>)
    /\ UNCHANGED <<promptVars, loadVars, linkVars, messages, composerVars,
                   conversationStatus, cancelModalVisible, userRole, isSending,
                   socketConnected, syncVars, send, now>>

\* cancelAck clearing the pending flag whatever the acknowledgment says.
cancelAckAlwaysClears(status) ==
    /\ cancelAckPending
    /\ cancelAckPending' = FALSE
    /\ cancelModalVisible' = FALSE
    /\ cancelRequestPending' = FALSE
    /\ lastEvent' = Event(IF status = "success" THEN "cancel_ack_success"
                          ELSE "cancel_ack_failure", NoPayload, <<>>)
    /\ UNCHANGED <<promptVars, loadVars, linkVars, messages, composerVars,
                   conversationStatus, userRole, isSending, socketConnected, syncVars,
                   send, now>>

\* cancelAck leaving the pending flag set whatever the acknowledgment says.
cancelAckNeverClears(status) ==
    /\ cancelAckPending
    /\ cancelAckPending' = FALSE
    /\ cancelModalVisible' = FALSE
    /\ cancelRequestPending' = cancelRequestPending
    /\ lastEvent' = Event(IF status = "success" THEN "cancel_ack_success"
                          ELSE "cancel_ack_failure", NoPayload, <<>>)
    /\ UNCHANGED <<promptVars, loadVars, linkVars, messages, composerVars,
                   conversationStatus, userRole, isSending, socketConnected, syncVars,
                   send, now>>

\* The acknowledgment of cancel_session_manually, lines 631-640.
cancelAck(status) ==
    /\ cancelAckPending
    /\ cancelAckPending' = FALSE
    /\ cancelModalVisible' = FALSE
    /\ cancelRequestPending' = IF status = "success" THEN cancelRequestPending ELSE FALSE
    /\ lastEvent' = Event(IF status = "success" THEN "cancel_ack_success"
                          ELSE "cancel_ack_failure", NoPayload, <<>>)
    /\ UNCHANGED <<promptVars, loadVars, linkVars, messages, composerVars,
                   conversationStatus, userRole, isSending, socketConnected, syncVars,
                   send, now>>

\* The data of a cancel_result or request_cancel_confirmation event: the
\* conversation id under the three field names the handlers accept, the status
\* of a result, the requester of a prompt.
HandshakeData(ids, st, name, requester) ==
    [conversationId |-> ids[1], conversationID |-> ids[2], conversation_id |-> ids[3],
     status |-> st, requesterName |-> name, requesterId |-> requester]

\* The id under one of the field names, under none, and under two at once.
HandshakeIds ==
    {<<c, Undefined, Undefined>> : c \in {ConvOpen, ConvOther}}
        \cup {<<Undefined, c, Undefined>> : c \in {ConvOpen, ConvOther}}
        \cup {<<Undefined, Undefined, c>> : c \in {ConvOpen, ConvOther}}
        \cup {<<Undefined, Undefined, Undefined>>, <<ConvOpen, ConvOther, Undefined>>}

\* targetConversationId, lines 562 and 580.
TargetConversationId(data) ==
    IF data.conversationId # Undefined THEN data.conversationId
    ELSE IF data.conversationID # Undefined THEN data.conversationID
    ELSE data.conversation_id

\* The cancel_result events the server sends: a conversation id (or none) and a
\* status (or none).
CancelResults ==
    {HandshakeData(ids, st, Undefined, Undefined) :
        ids \in HandshakeIds, st \in {"success", "SUCCESS", "declined", Undefined}}

\* The request_cancel_confirmation events the server sends.
CancelRequests ==
    {HandshakeData(ids, Undefined, name, requester) :
        ids \in HandshakeIds, name \in {"An", Undefined}, requester \in {"u7", Undefined}}

\* Every result read as a success.
ResultStatusAlwaysSuccess(data) == "success"

\* The status handleCancelResult reads, line 587.
ResultStatus(data) ==
    LET raw == IF data.status = Undefined THEN "success" ELSE data.status
    IN IF raw = "SUCCESS" THEN "success" ELSE raw

\* The filter reading the id under the name conversationId alone.
ForOtherConversationOneName(data) ==
    data.conversationId # Undefined /\ data.conversationId # ConvOpen

\* The filter of lines 563-565 and 581-583.
ForOtherConversation(data) ==
    TargetConversationId(data) # Undefined /\ TargetConversationId(data) # ConvOpen

\* handleCancelResult, lines 578-604.
handleCancelResult(data) ==
    /\ socketConnected
    /\ IF ForOtherConversation(data)
       THEN UNCHANGED <<conversationStatus, cancelRequestPending, selectedAttachment>>
       ELSE LET status == IF ResultStatus(data) = "success" THEN "CANCELLED"
                          ELSE conversationStatus
            IN /\ conversationStatus' = status
               /\ cancelRequestPending' = FALSE
               /\ selectedAttachment' = SelectionAfterStatus(selectedAttachment, status)
    /\ lastEvent' = HandshakeEvent("cancel_result", data)
    /\ UNCHANGED <<promptVars, loadVars, linkVars, messages, input, cancelModalVisible,
                   cancelAckPending, userRole, isSending, socketConnected, syncVars, send,
                   now>>

(***************************************************************************)
(* Cancellation handshake, counterpart side.                               *)
(***************************************************************************)
\* A guard that lets every prompt through.
shouldShowCancelPromptAlways(targetConversationId) == TRUE

\* shouldShowCancelPrompt of src/utils/cancelPromptGuard, called at line 567:
\* a prompt is held back for a conversation id the guard already let one
\* through for.

shouldShowCancelPrompt(targetConversationId) ==
    targetConversationId \notin cancelPromptGuard

\* requesterName, line 571.
RequesterName(data) ==
    IF data.requesterName # Undefined THEN data.requesterName
    ELSE IF data.requesterId # Undefined THEN data.requesterId
    ELSE DefaultRequesterName

\* handleIncomingCancelRequest, lines 560-576.
handleIncomingCancelRequest(data) ==
    /\ socketConnected
    /\ IF ForOtherConversation(data)
       THEN UNCHANGED promptVars
       ELSE IF ~shouldShowCancelPrompt(TargetConversationId(data))
       THEN UNCHANGED promptVars
       ELSE /\ cancelPromptGuard' = cancelPromptGuard \cup {TargetConversationId(data)}
            /\ cancelRequesterName' = RequesterName(data)
            /\ incomingCancelModalVisible' = TRUE
    /\ lastEvent' = HandshakeEvent("request_cancel_confirmation", data)
    /\ UNCHANGED <<loadVars, linkVars, messages, composerVars, sessionVars, isSending,
                   socketConnected, syncVars, send, now>>

\* handleAcceptIncomingCancel and handleDeclineIncomingCancel, lines 644-652,
\* and the dismissal of the prompt, lines 1580-1582: the prompt closes;
\* respondCancelRequest (lines 540-558) emits when there is a socket and its
\* acknowledgment changes no state.
respondIncomingCancel(confirmed) ==
    /\ incomingCancelModalVisible
    /\ incomingCancelModalVisible' = FALSE
    /\ lastEvent' = Event(IF confirmed THEN "accept_incoming_cancel"
                          ELSE "decline_incoming_cancel", NoPayload, <<>>)
    /\ UNCHANGED <<loadVars, linkVars, messages, composerVars, sessionVars,
                   cancelRequesterName, cancelPromptGuard, isSending, socketConnected,
                   syncVars, send, now>>

dismissIncomingCancel ==
    /\ incomingCancelModalVisible
    /\ incomingCancelModalVisible' = FALSE
    /\ lastEvent' = Event("dismiss_incoming_cancel", NoPayload, <<>>)
    /\ UNCHANGED <<loadVars, linkVars, messages, composerVars, sessionVars,
                   cancelRequesterName, cancelPromptGuard, isSending, socketConnected,
                   syncVars, send, now>>

\* The guard lets go of a conversation id once no prompt is showing.
cancelPromptGuardReleased ==
    /\ ~incomingCancelModalVisible
    /\ cancelPromptGuard # {}
    /\ cancelPromptGuard' = {}
    /\ lastEvent' = Event("prompt_guard_released", NoPayload, <<>>)
    /\ UNCHANGED <<loadVars, linkVars, messages, composerVars, sessionVars,
                   incomingCancelModalVisible, cancelRequesterName, isSending,
                   socketConnected, syncVars, send, now>>

(***************************************************************************)
(* Specifications.  Next is every handler over every input.  Its state      *)
(* space is the product of the timeline, the send in progress, the          *)
(* session and the handshake, so each group of properties is checked under  *)
(* the specification of the handlers that write or read the variables it    *)
(* speaks of:                                                               *)
(*   SpecSend      realtime pushes and sends (socket, REST, silent refetch),*)
(*   SpecMerge     realtime pushes and read-receipt syncs,                  *)
(*   SpecDelivery  the composer and the paths of a send, under the session  *)
(*                 events,                                                  *)
(*   SpecSession   session events, conversation record and the cancellation *)
(*                 handshake.                                               *)
(***************************************************************************)
\* What the user types: a text, or only blanks.
Texts == {"hi", " "}
\* The pages the silent refetch of a send is answered with.
ShortPages == {page \in Snapshots : Len(page) <= 1}

Transport == handleConnect \/ handleDisconnect

Joining ==
    \/ handleConnectError
    \/ \E status \in {"success", "error"} : joinAck(status)
    \/ socketEffectRestart

Realtime == \E payload \in PushPayloads, t \in 0..MaxTime : handleIncomingMessage(payload, t)

ReadSync ==
    \/ syncReadReceiptsStart
    \/ syncReadReceiptsSkipped
    \/ \E page \in Snapshots : syncReadReceiptsDone(page)
    \/ syncReadReceiptsFailed

FullFetch ==
    \/ fetchMessagesStart
    \/ refreshMessagesStart
    \/ \E meta \in MetaStatuses, page \in Snapshots : fetchMessagesDone(meta, page)
    \/ \E meta \in MetaStatuses \cup {RequestRejected}, error \in FetchErrors :
            fetchMessagesFailed(meta, error)

Composer ==
    \/ \E text \in Texts : setInput(text)
    \/ handlePickImage
    \/ handleRemoveAttachment

SendStart == \E t \in Times : handleSendMessage(t)
SendRejected == handleSendMessageRejected

SendSettle ==
    \/ uploadDone
    \/ sendFailed
    \/ socketAckSuccess
    \/ socketAckRejected
    \/ \E apiMessage \in RestReplies(send.text) : restConfirmed(apiMessage)
    \/ restEmpty

SendRefetch ==
    \/ \E meta \in MetaStatuses, page \in Snapshots : refetchDone(meta, page)
    \/ \E meta \in MetaStatuses \cup {RequestRejected}, error \in FetchErrors :
            refetchFailed(meta, error)

Deleting == \E i \in 1..MaxTimeline : handleDeleteMessage(i)

SessionEvents == handleSessionActivated \/ handleSessionCanceled \/ handleSessionEnded

Cancellation ==
    \/ handleRequestCancelSession
    \/ dismissCancelModal
    \/ confirmCancelSession
    \/ \E status \in {"success", "error"} : cancelAck(status)
    \/ \E data \in CancelResults : handleCancelResult(data)

IncomingCancellation ==
    \/ \E data \in CancelRequests : handleIncomingCancelRequest(data)
    \/ \E confirmed \in BOOLEAN : respondIncomingCancel(confirmed)
    \/ dismissIncomingCancel
    \/ cancelPromptGuardReleased

Next ==
    \/ Transport
    \/ Joining
    \/ Realtime
    \/ ReadSync
    \/ FullFetch
    \/ Composer
    \/ SendStart
    \/ SendRejected
    \/ SendSettle
    \/ SendRefetch
    \/ Deleting
    \/ SessionEvents
    \/ Cancellation
    \/ IncomingCancellation

Spec == Init /\ [][Next]_vars

\* Pushes and sends.  The session is opened by session_activated; the sync and
\* the cancellation handshake do not run, so what they alone read is fixed.
InitSend == Init /\ userRole = "CUSTOMER" /\ syncSeesPending

NextSend ==
    \/ Transport
    \/ Realtime
    \/ setInput("hi")
    \/ SendStart
    \/ sendFailed
    \/ socketAckSuccess
    \/ socketAckRejected
    \/ \E apiMessage \in RestReplies(send.text) : restConfirmed(apiMessage)
    \/ restEmpty
    \/ \E meta \in MetaStatuses, page \in ShortPages : refetchDone(meta, page)
    \/ \E meta \in MetaStatuses : refetchFailed(meta, NetworkError)
    \/ Deleting
    \/ handleSessionActivated

SpecSend == InitSend /\ [][NextSend]_vars

\* Pushes and read-receipt syncs.
InitMerge == Init /\ userRole = "CUSTOMER" /\ syncSeesPending

NextMerge ==
    \/ Transport
    \/ Realtime
    \/ ReadSync

SpecMerge == InitMerge /\ [][NextMerge]_vars

\* The composer and sends with and without an attachment over both paths, under
\* every session event, without pushes.
InitDelivery == Init /\ userRole = "CUSTOMER" /\ syncSeesPending

NextDelivery ==
    \/ Transport
    \/ Composer
    \/ SessionEvents
    \/ SendStart
    \/ SendRejected
    \/ SendSettle
    \/ \E meta \in MetaStatuses \cup {"WAITING"}, page \in ShortPages :
           refetchDone(meta, page)
    \/ \E meta \in MetaStatuses \cup {"WAITING"} : refetchFailed(meta, NetworkError)

SpecDelivery == InitDelivery /\ [][NextDelivery]_vars

\* The session and the cancellation handshake, for both roles, with the status
\* the conversation record reports.
InitSession == Init /\ syncSeesPending

NextSession ==
    \/ Transport
    \/ SessionEvents
    \/ Cancellation
    \/ fetchMessagesStart
    \/ \E meta \in MetaStatuses \cup {"WAITING"} : fetchMessagesDone(meta, <<>>)
    \/ \E meta \in MetaStatuses \cup {"WAITING"} : fetchMessagesFailed(meta, NetworkError)

SpecSession == InitSession /\ [][NextSession]_vars

\* Both sides of the cancellation handshake under the session events.
InitHandshake == Init

NextHandshake ==
    \/ Transport
    \/ SessionEvents
    \/ Cancellation
    \/ IncomingCancellation

SpecHandshake == InitHandshake /\ [][NextHandshake]_vars

\* Everything that can touch the session status: the session events, the
\* conversation record of a full fetch and of the refetch after a send, both
\* sides of the handshake, and what the customer does with the composer and
\* the timeline.
InitStatus == Init /\ userRole = "CUSTOMER" /\ ~syncSeesPending

NextStatus ==
    \/ Transport
    \/ SessionEvents
    \/ handleRequestCancelSession
    \/ confirmCancelSession
    \/ \E status \in {"success", "error"} : cancelAck(status)
    \/ \E data \in {d \in CancelResults : d.conversationID = Undefined
                                          /\ d.conversation_id = Undefined
                                          /\ d.status \in {"success", "declined"}} :
            handleCancelResult(data)
    \/ handleIncomingCancelRequest(
            HandshakeData(<<ConvOpen, Undefined, Undefined>>, Undefined, "An", Undefined))
    \/ respondIncomingCancel(TRUE)
    \/ setInput("hi")
    \/ handlePickImage
    \/ handleSendMessage(1)
    \/ SendSettle
    \/ \E meta \in MetaStatuses : refetchDone(meta, <<>>) \/ refetchFailed(meta, NetworkError)
    \/ Deleting
    \/ fetchMessagesStart
    \/ \E meta \in MetaStatuses :
           fetchMessagesDone(meta, <<>>) \/ fetchMessagesFailed(meta, NetworkError)

SpecStatus == InitStatus /\ [][NextStatus]_vars

\* Full fetches over every page, with pushes of the partner's messages in
\* between.
InitFetch == Init /\ userRole = "CUSTOMER" /\ ~syncSeesPending

NextFetch ==
    \/ Transport
    \/ \E payload \in PartnerPayloads : handleIncomingMessage(payload, now)
    \/ FullFetch

SpecFetch == InitFetch /\ [][NextFetch]_vars

\* The read-receipt sync under every call of syncReadReceipts, with pushes of
\* the viewer's messages, whether or not the callback sees receipts pending.
InitSync == Init /\ userRole = "CUSTOMER"

NextSync ==
    \/ Transport
    \/ \E payload \in MinePayloads : handleIncomingMessage(payload, now)
    \/ syncReadReceiptsStart
    \/ syncReadReceiptsSkipped
    \/ \E page \in ShortPages : syncReadReceiptsDone(page)
    \/ syncReadReceiptsFailed

SpecSync == InitSync /\ [][NextSync]_vars

\* Sends of a text over both paths, with the progress the code can count on:
\* an HTTP request (sendChatMessage, the silent fetch) is answered or fails.
\* Nothing in handleSendMessage or emitSocketMessage (lines 470-493) bounds
\* the wait for the acknowledgment of send_message, and the server's pushes
\* are not the client's to schedule, so neither is assumed to happen.
InitLive == Init /\ userRole = "CUSTOMER" /\ syncSeesPending

RestSettles ==
    \/ \E apiMessage \in RestReplies(send.text) : restConfirmed(apiMessage)
    \/ restEmpty
    \/ sendFailed

RefetchSettles ==
    \/ \E page \in ShortPages : refetchDone("ACTIVE", page)
    \/ refetchFailed("ACTIVE", NetworkError)

NextLive ==
    \/ Transport
    \/ handleSessionActivated
    \/ setInput("hi")
    \/ SendStart
    \/ socketAckSuccess
    \/ socketAckRejected
    \/ RestSettles
    \/ RefetchSettles

SpecLive ==
    /\ InitLive
    /\ [][NextLive]_vars
    /\ WF_vars(RestSettles)
    /\ WF_vars(RefetchSettles)

\* The connection, the join of the conversation and what is emitted on the
\* socket: a send of a text, the request of a cancellation and the answer to
\* one, in a session the server activated.
InitJoin == Init /\ userRole = "CUSTOMER" /\ ~syncSeesPending

NextJoin ==
    \/ Transport
    \/ Joining
    \/ handleSessionActivated
    \/ setInput("hi")
    \/ handleSendMessage(1)
    \/ socketAckSuccess
    \/ socketAckRejected
    \/ RestSettles
    \/ RefetchSettles
    \/ handleRequestCancelSession
    \/ confirmCancelSession
    \/ \E status \in {"success", "error"} : cancelAck(status)
    \/ handleIncomingCancelRequest(
            HandshakeData(<<ConvOpen, Undefined, Undefined>>, Undefined, "An", Undefined))
    \/ \E confirmed \in BOOLEAN : respondIncomingCancel(confirmed)

SpecJoin == InitJoin /\ [][NextJoin]_vars

\* A send of a text in flight while pushes, read-receipt syncs and full
\* fetches complete: the viewer's message as sent, read or failed, pushed or
\* in a page of at most one record.
InitFlight == Init /\ userRole = "CUSTOMER" /\ syncSeesPending

FlightPages == {<<>>} \cup {<<payload>> : payload \in MinePayloads \cup FailedPayloads}

NextFlight ==
    \/ Transport
    \/ handleSessionActivated
    \/ setInput("hi")
    \/ SendStart
    \/ sendFailed
    \/ socketAckSuccess
    \/ socketAckRejected
    \/ \E apiMessage \in RestReplies(send.text) : restConfirmed(apiMessage)
    \/ \E payload \in MinePayloads \cup FailedPayloads : handleIncomingMessage(payload, now)
    \/ syncReadReceiptsStart
    \/ \E page \in FlightPages : syncReadReceiptsDone(page)
    \/ syncReadReceiptsFailed
    \/ fetchMessagesStart
    \/ \E meta \in {"ACTIVE", Undefined}, page \in FlightPages : fetchMessagesDone(meta, page)
    \/ \E meta \in {"ACTIVE", Undefined} : fetchMessagesFailed(meta, NetworkError)

SpecFlight == InitFlight /\ [][NextFlight]_vars

\* The session status under every status a conversation record can carry:
\* the lifecycle's, in either case, one outside it, an empty one and none.
InitLock == Init /\ userRole = "CUSTOMER" /\ syncSeesPending

LockMetas == {"ACTIVE", "active", "WAITING", "paused", "", Undefined}

NextLock ==
    \/ Transport
    \/ SessionEvents
    \/ fetchMessagesStart
    \/ \E meta \in LockMetas : fetchMessagesDone(meta, <<>>)
    \/ Composer
    \/ handleSendMessage(1)
    \/ SendRejected
    \/ uploadDone
    \/ socketAckSuccess
    \/ sendFailed

SpecLock == InitLock /\ [][NextLock]_vars

(***************************************************************************)
(* Properties of the timeline.                                             *)
(***************************************************************************)
\* The message the last receive_message was mapped to (Date.now() read as now).
Pushed == mapApiMessage(lastEvent.payload, Me, ConvOpen, now)
\* Same, in the step that handles it.
PushedNext == mapApiMessage(lastEvent'.payload, Me, ConvOpen, now')
\* The payload carries the fields the mapper would otherwise default.
WellFormed(payload) == payload.id # Absent /\ payload.createdAt # Absent
\* The placeholders a push for the message normalized can be matched with.
Candidates(list, normalized) ==
    {i \in 1..Len(list) :
        /\ list[i].role = "outgoing"
        /\ list[i].status = "sending"
        /\ list[i].content = normalized.content}
\* The number of entries of a list with an id.
CountId(list, id) == Cardinality({i \in 1..Len(list) : list[i].id = id})

\* C1: in every reachable state no two entries of the timeline have the same
\* id.  (Violated: a push promotes the placeholder to the durable id while the
\* REST request of the same send is pending, and the REST response appends the
\* durable record again.)
C1_UniqueIds ==
    \A i, j \in 1..Len(messages) : i # j => messages[i].id # messages[j].id

\* C2: in every reachable state the timeline is non-decreasing by createdAt.
\* (Violated: a push replacing an entry by id with another createdAt is not
\* followed by a sort, and the optimistic entry is appended without one.)
C2_SortedByCreatedAt ==
    \A i, j \in 1..Len(messages) :
        i < j => messages[i].createdAt <= messages[j].createdAt

\* C3 as stated: a receive_message handled right after the same receive_message
\* leaves the timeline as the first one left it, for every payload.
C3_IdempotentForEveryPayload ==
    [][(lastEvent'.kind = "receive_message" /\ lastEvent'.again)
          => messages' = messages]_vars

\* C3 amended: a receive_message whose payload carries an id and a createdAt,
\* handled right after the same receive_message, leaves the timeline as the
\* first one left it (same entries, same order).
C3_IdempotentForWellFormed ==
    [][(/\ lastEvent'.kind = "receive_message"
        /\ lastEvent'.again
        /\ WellFormed(lastEvent'.payload))
          => messages' = messages]_vars

\* The same well-formed push was handled twice in a row and the timeline
\* holds its message.
C3_Witness ==
    /\ lastEvent.kind = "receive_message"
    /\ lastEvent.again
    /\ WellFormed(lastEvent.payload)
    /\ \E i \in 1..Len(messages) : messages[i] = Pushed

\* C4: when a push for the viewer's own message with a durable id the timeline
\* does not hold finds a placeholder in status sending with the same content,
\* then after the push the timeline is as long as before, holds exactly one
\* entry with the durable id, which is the pushed message, and no longer holds
\* the id of the (first) matching placeholder.
C4_OptimisticPromotion ==
    [][(/\ lastEvent'.kind = "receive_message"
        /\ lastEvent'.payload.id # Absent
        /\ lastEvent'.payload.senderId = Me
        /\ ~HasId(messages, lastEvent'.payload.id)
        /\ Candidates(messages, PushedNext) # {})
          => LET first == CHOOSE i \in Candidates(messages, PushedNext) :
                              \A j \in Candidates(messages, PushedNext) : i <= j
             IN /\ Len(messages') = Len(messages)
                /\ CountId(messages', lastEvent'.payload.id) = 1
                /\ \E i \in 1..Len(messages') : messages'[i] = PushedNext
                /\ ~HasId(messages', messages[first].id)]_vars

\* A send is in flight, its placeholder is gone, and the last step handled a
\* push of the viewer's message whose id was unknown and which did not make
\* the timeline longer.
C4_Witness ==
    /\ lastEvent.kind = "receive_message"
    /\ lastEvent.payload.senderId = Me
    /\ lastEvent.payload.id # Absent
    /\ ~lastEvent.known
    /\ lastEvent.size = Len(messages)
    /\ HasId(messages, lastEvent.payload.id)
    /\ send.pc # "idle"
    /\ ~HasId(messages, send.localId)

\* The push carries a deletion marker.
IsDeletion(payload) ==
    ToLowerCase(IF payload.status = Undefined THEN "" ELSE payload.status) = "deleted"

\* C5 as stated: a push with a deletion marker for an id the timeline holds
\* leaves that entry without content and attachments, recalled, and with the
\* createdAt it had before the push.
C5_RecallKeepsCreatedAt ==
    [][(/\ lastEvent'.kind = "receive_message"
        /\ IsDeletion(lastEvent'.payload)
        /\ HasId(messages, lastEvent'.payload.id))
          => /\ Len(messages') = Len(messages)
             /\ \A i \in 1..Len(messages) :
                   messages[i].id = lastEvent'.payload.id
                   => /\ messages'[i].content = Undefined
                      /\ messages'[i].attachments = NoAttachments
                      /\ messages'[i].isRecalled
                      /\ messages'[i].createdAt = messages[i].createdAt]_vars

\* C5 amended: a push with a deletion marker for an id the timeline holds
\* leaves that entry, at the index it had, without content and attachments,
\* recalled, and with the createdAt of the push (the clock's value if the push
\* has none); every other entry is unchanged.
C5_RecallMasking ==
    [][(/\ lastEvent'.kind = "receive_message"
        /\ IsDeletion(lastEvent'.payload)
        /\ HasId(messages, lastEvent'.payload.id))
          => /\ Len(messages') = Len(messages)
             /\ \A i \in 1..Len(messages) :
                   IF messages[i].id = lastEvent'.payload.id
                   THEN /\ messages'[i].content = Undefined
                        /\ messages'[i].attachments = NoAttachments
                        /\ messages'[i].isRecalled
                        /\ messages'[i].createdAt =
                              IF lastEvent'.payload.createdAt = Absent THEN now'
                              ELSE lastEvent'.payload.createdAt
                   ELSE messages'[i] = messages[i]]_vars

\* The last step handled a deletion push for an id the timeline held, and the
\* entry is recalled.
C5_Witness ==
    /\ lastEvent.kind = "receive_message"
    /\ IsDeletion(lastEvent.payload)
    /\ lastEvent.known
    /\ ~lastEvent.again
    /\ \E i \in 1..Len(messages) :
          /\ messages[i].id = lastEvent.payload.id
          /\ messages[i].isRecalled
          /\ messages[i].content = Undefined

(***************************************************************************)
(* Properties of the composer gate and of the cancellation handshake.      *)
(***************************************************************************)
\* C6: in every reachable state, canSend is false when the normalized status
\* is not ACTIVE, whatever the input and the selected attachment; and canSend
\* is true when the status is ACTIVE, the trimmed input is not empty and no
\* send is in progress.
C6_SessionGating ==
    /\ normalizeConversationStatus(conversationStatus) # "ACTIVE" => ~canSend
    /\ (/\ normalizeConversationStatus(conversationStatus) = "ACTIVE"
        /\ Trim(input) # ""
        /\ ~isSending) => canSend

\* A text is in the composer, no send is in progress, and the session is not
\* ACTIVE.
C6_Witness ==
    /\ normalizeConversationStatus(conversationStatus) \in {"WAITING", "ENDED", "CANCELLED"}
    /\ Trim(input) # ""
    /\ ~isSending
    /\ ~canSend

\* The cancel_result of the last step reports success for the open conversation.
IsSuccessResult(payload) == payload.conversationId = ConvOpen /\ payload.status = "success"

\* C7: confirming the cancellation sets cancelRequestPending; the success
\* acknowledgment of cancel_session_manually leaves it as it is (true when the
\* acknowledgment follows the confirmation directly) and leaves the status;
\* a cancel_result with status success for the open conversation makes the
\* status CANCELLED and cancelRequestPending false.
C7_CancelSuccessPath ==
    [][/\ lastEvent'.kind = "confirm_cancel" => cancelRequestPending'
       /\ lastEvent'.kind = "cancel_ack_success"
            => /\ cancelRequestPending' = cancelRequestPending
               /\ conversationStatus' = conversationStatus
               /\ lastEvent.kind = "confirm_cancel" => cancelRequestPending'
       /\ (lastEvent'.kind = "cancel_result" /\ IsSuccessResult(lastEvent'.payload))
            => /\ conversationStatus' = "CANCELLED"
               /\ ~cancelRequestPending']_vars

\* The request was confirmed and acknowledged, the flag was still set when a
\* cancel_result with status success arrived, and the session is CANCELLED
\* with the flag cleared.
C7_Witness ==
    /\ lastEvent.kind = "cancel_result"
    /\ IsSuccessResult(lastEvent.payload)
    /\ lastEvent.pending
    /\ ~cancelAckPending
    /\ conversationStatus = "CANCELLED"
    /\ ~cancelRequestPending

\* C8 as stated: when the acknowledgment of cancel_session_manually is not
\* success, cancelRequestPending was not made true by the request (it is false
\* when the acknowledgment arrives), it is false afterwards, and the status is
\* unchanged.
C8_PendingNeverSet ==
    [][lastEvent'.kind = "cancel_ack_failure"
          => /\ ~cancelRequestPending
             /\ ~cancelRequestPending'
             /\ conversationStatus' = conversationStatus]_vars

\* C8 amended: confirming the cancellation sets cancelRequestPending while the
\* acknowledgment is awaited; when the acknowledgment is not success,
\* cancelRequestPending is false after it is handled and the status is
\* unchanged.
C8_CancelFailurePath ==
    [][/\ lastEvent'.kind = "confirm_cancel"
            => cancelRequestPending' /\ conversationStatus' = conversationStatus
       /\ lastEvent'.kind = "cancel_ack_failure"
            => /\ ~cancelRequestPending'
               /\ conversationStatus' = conversationStatus]_vars

\* A failure acknowledgment was handled while the flag was set, and the flag
\* is cleared.
C8_Witness ==
    /\ lastEvent.kind = "cancel_ack_failure"
    /\ lastEvent.pending
    /\ ~cancelRequestPending

(***************************************************************************)
(* Properties of the snapshot merge and of the delivery of a send.         *)
(***************************************************************************)
\* Every record of the page is known to the timeline, and every entry has the
\* status and the content of its record.
SameStatusAndContent(list, normalized) ==
    /\ \A k \in 1..Len(normalized) : HasId(list, normalized[k].id)
    /\ \A i \in 1..Len(list), k \in 1..Len(normalized) :
          list[i].id = normalized[k].id
          => /\ list[i].status = normalized[k].status
             /\ list[i].content = normalized[k].content

\* Every entry has the recalled flag of its record.
SameRecalled(list, normalized) ==
    \A i \in 1..Len(list), k \in 1..Len(normalized) :
        list[i].id = normalized[k].id => list[i].isRecalled = normalized[k].isRecalled

\* C9 as stated: a sync whose page holds no record unknown to the timeline and,
\* for every entry, the same status and content, leaves the timeline as it is.
C9_NoOpOnSameStatusAndContent ==
    [][(/\ lastEvent'.kind = "sync_done"
        /\ SameStatusAndContent(messages, NormalizedPage(lastEvent'.page, now)))
          => messages' = messages]_vars

\* C9 amended: a sync whose page holds no record unknown to the timeline and,
\* for every entry, the same status, content and recalled flag, leaves the
\* timeline as it is (same entries, same order).
C9_NoOpOnSameStatusContentRecalled ==
    [][(/\ lastEvent'.kind = "sync_done"
        /\ SameStatusAndContent(messages, NormalizedPage(lastEvent'.page, now))
        /\ SameRecalled(messages, NormalizedPage(lastEvent'.page, now)))
          => messages' = messages]_vars

\* A sync handled a page with a record of an entry, equal to it in status,
\* content and recalled flag and different in createdAt, and the entry kept
\* its createdAt.
C9_Witness ==
    /\ lastEvent.kind = "sync_done"
    /\ lastEvent.page # <<>>
    /\ SameStatusAndContent(messages, NormalizedPage(lastEvent.page, now))
    /\ SameRecalled(messages, NormalizedPage(lastEvent.page, now))
    /\ \E i \in 1..Len(messages), k \in 1..Len(lastEvent.page) :
          /\ messages[i].id = lastEvent.page[k].id
          /\ messages[i].createdAt # lastEvent.page[k].createdAt

\* C10: a send begun on a live connection emits send_message first (after the
\* upload, if there is one); the REST request is made only by a send begun
\* without a connection or after a rejected acknowledgment, and only a send
\* waiting for the REST response takes its result; a success acknowledgment
\* ends the send without a REST request and without touching the timeline.
C10_DualPathSend ==
    [][/\ (lastEvent'.kind = "send" /\ selectedAttachment = NoSelection /\ socketConnected)
            => send'.pc = "socket"
       /\ (lastEvent'.kind = "upload_done" /\ send.connected) => send'.pc = "socket"
       /\ (send'.pc = "rest" /\ send.pc # "rest")
            => \/ lastEvent'.kind = "send" /\ ~socketConnected
               \/ lastEvent'.kind = "upload_done" /\ ~send.connected
               \/ lastEvent'.kind = "socket_ack_rejected" /\ send.pc = "socket"
       /\ lastEvent'.kind \in {"rest_confirmed", "rest_empty", "rest_failed"}
            => send.pc = "rest"
       /\ lastEvent'.kind = "socket_ack_success"
            => /\ send.pc = "socket"
               /\ send'.pc = "idle"
               /\ ~isSending'
               /\ messages' = messages]_vars

\* A send begun on a live connection had its acknowledgment rejected and now
\* waits for the REST response.
C10_Witness ==
    /\ lastEvent.kind = "socket_ack_rejected"
    /\ send.connected
    /\ send.pc = "rest"
    /\ isSending

(***************************************************************************)
(* Properties of the settling of a send.                                   *)
(***************************************************************************)
\* C11: a send that waits for the acknowledgment of send_message eventually
\* stops waiting for it (the promise is rejected when no acknowledgment
\* arrives), and a send in progress eventually finishes.  (Violated: the
\* promise of emitSocketMessage settles only in the acknowledgment callback;
\* without an acknowledgment the send waits forever with isSending true.)
C11_SendEventuallySettles ==
    /\ (send.pc = "socket") ~> (send.pc # "socket")
    /\ isSending ~> ~isSending

\* C12: when the upload or the REST request of a send fails, every entry with
\* the placeholder id of that send gets status failed and is otherwise as it
\* was, every other entry is unchanged, and the send is over: no request of
\* it is left in flight and isSending is false.
C12_FailedSend ==
    [][lastEvent'.kind \in {"rest_failed", "upload_failed"}
          => /\ Len(messages') = Len(messages)
             /\ \A i \in 1..Len(messages) :
                   IF messages[i].id = send.localId
                   THEN messages'[i] = [messages[i] EXCEPT !.status = "failed"]
                   ELSE messages'[i] = messages[i]
             /\ send'.pc = "idle"
             /\ ~isSending']_vars

\* The REST request of a send failed while an earlier placeholder was still
\* in status sending: the last entry is failed, the earlier one is not.
C12_Witness ==
    /\ lastEvent.kind = "rest_failed"
    /\ Len(messages) = 2
    /\ messages[1].status = "sending"
    /\ messages[2].status = "failed"
    /\ send.pc = "idle"

\* The timeline holds the placeholder with a local id, in status sending.
SendingPlaceholder(id) ==
    \E i \in 1..Len(messages) :
        /\ messages[i].id = id
        /\ messages[i].role = "outgoing"
        /\ messages[i].status = "sending"

\* C13: once the server confirmed a send (success acknowledgment or REST
\* response with the durable record), a placeholder in status sending is
\* eventually no longer in the timeline, also without a receive_message for
\* the message.  (Violated: the success acknowledgment leaves the placeholder
\* as it is, and only a push or a fetch would replace it.)
C13_ConfirmedSendLeavesSending ==
    \A id \in Times :
        (lastEvent.kind \in {"socket_ack_success", "rest_confirmed"} /\ SendingPlaceholder(id))
            ~> ~SendingPlaceholder(id)

(***************************************************************************)
(* Properties of the read-receipt sync and of the session status.          *)
(***************************************************************************)
\* C14: at most one snapshot request of syncReadReceipts is in flight, and
\* readSyncRef is set exactly while one is; a call made while one is in flight
\* starts no request; and the completion of the request (a page, an empty
\* page, a failure) releases readSyncRef.
C14_SyncReentrancyGuard ==
    /\ [](syncInFlight <= 1 /\ (readSyncRef <=> syncInFlight = 1))
    /\ [][/\ (lastEvent'.kind = "sync_skipped" /\ readSyncRef)
               => syncInFlight' = syncInFlight /\ readSyncRef'
          /\ lastEvent'.kind \in {"sync_done", "sync_failed"}
               => ~readSyncRef' /\ syncInFlight' = 0]_vars

\* A call of syncReadReceipts returned early while a request was in flight.
C14_Witness ==
    /\ lastEvent.kind = "sync_skipped"
    /\ readSyncRef
    /\ syncInFlight = 1

\* The steps of the handlers of a server-pushed session event, and of the
\* handlers of the responses of fetchMessages.
SessionEventKinds == {"session_activated", "session_ended", "session_canceled"}
FetchKinds == {"fetch_done", "fetch_failed", "refetch_done", "refetch_failed"}
\* The steps of what the user does: typing, picking and removing an image,
\* sending, deleting, asking for and confirming a cancellation, closing its
\* modal, answering and closing a prompt.
UserKinds ==
    {"input", "pick", "unpick", "send", "delete", "request_cancel",
     "confirm_cancel", "dismiss_cancel", "accept_incoming_cancel",
     "decline_incoming_cancel", "dismiss_incoming_cancel"}

\* C15 as stated: the session status changes only in a step that handles
\* session_activated, session_ended, session_canceled or a response of the
\* fetch of the conversation record.
C15_StatusOnlyBySessionEventOrFetch ==
    [][conversationStatus' # conversationStatus
          => lastEvent'.kind \in SessionEventKinds \cup FetchKinds]_vars

\* C15 amended: the session status changes only in a step that handles
\* session_activated, session_ended, session_canceled, a response of the
\* fetch of the conversation record, or a cancel_result that reports success
\* (or no status) and is not for another conversation; no step of a user
\* action changes it.
C15_StatusOnlyByServer ==
    [][/\ conversationStatus' # conversationStatus
            => \/ lastEvent'.kind \in SessionEventKinds \cup FetchKinds
               \/ /\ lastEvent'.kind = "cancel_result"
                  /\ ~ForOtherConversation(lastEvent'.payload)
                  /\ ResultStatus(lastEvent'.payload) = "success"
                  /\ conversationStatus' = "CANCELLED"
       /\ lastEvent'.kind \in UserKinds
            => conversationStatus' = conversationStatus]_vars

\* A cancel_result with status success made an ACTIVE session CANCELLED after
\* the user confirmed the cancellation.
C15_Witness ==
    /\ lastEvent.kind = "cancel_result"
    /\ lastEvent.payload.status = "success"
    /\ lastEvent.pending
    /\ conversationStatus = "CANCELLED"
    /\ Len(messages) > 0

(***************************************************************************)
(* Properties of the cancellation handshake.                               *)
(***************************************************************************)
\* C16: whenever the session status is ENDED or CANCELLED, cancelRequestPending
\* is false, also after the user confirmed a cancellation once the status had
\* become ENDED or CANCELLED.
C16_PendingClearedWhenOver ==
    normalizeConversationStatus(conversationStatus) \in {"ENDED", "CANCELLED"}
        => ~cancelRequestPending

\* The conversation id the data of the event carries, read here field by
\* field, is one and is not the open conversation's.
CarriesOtherId(data) ==
    LET given == {data.conversationId, data.conversationID, data.conversation_id}
                    \ {Undefined}
    IN given = {ConvOther}

\* C17: a cancel_result or request_cancel_confirmation whose conversation id,
\* under any of the three field names, is another conversation's changes
\* neither the status, nor cancelRequestPending, nor the visibility of the
\* prompt, nor the requester name.
C17_OtherConversationIgnored ==
    [][(/\ lastEvent'.kind \in {"cancel_result", "request_cancel_confirmation"}
        /\ CarriesOtherId(lastEvent'.payload))
          => /\ conversationStatus' = conversationStatus
             /\ cancelRequestPending' = cancelRequestPending
             /\ incomingCancelModalVisible' = incomingCancelModalVisible
             /\ cancelRequesterName' = cancelRequesterName]_vars

\* A cancel_result reporting success for another conversation, its id under
\* the name conversation_id, arrived while the cancellation was pending and
\* the session ACTIVE, and both are as they were.
C17_Witness ==
    /\ lastEvent.kind = "cancel_result"
    /\ lastEvent.payload.conversation_id = ConvOther
    /\ lastEvent.payload.status = "success"
    /\ lastEvent.pending
    /\ cancelRequestPending
    /\ conversationStatus = "ACTIVE"

\* C18: a request_cancel_confirmation carrying the id of the open conversation,
\* arriving while the prompt that an earlier request for that id opened is
\* showing, leaves the prompt showing and the requester name as shown.
C18_DuplicatePromptSuppressed ==
    [][(/\ lastEvent'.kind = "request_cancel_confirmation"
        /\ TargetConversationId(lastEvent'.payload) = ConvOpen
        /\ incomingCancelModalVisible
        /\ ConvOpen \in cancelPromptGuard)
          => /\ incomingCancelModalVisible'
             /\ cancelRequesterName' = cancelRequesterName
             /\ cancelPromptGuard' = cancelPromptGuard]_vars

\* A second request for the open conversation named another requester while
\* the prompt was showing, and the prompt shows the first one's name.
C18_Witness ==
    /\ lastEvent.kind = "request_cancel_confirmation"
    /\ TargetConversationId(lastEvent.payload) = ConvOpen
    /\ lastEvent.payload.requesterName = "An"
    /\ incomingCancelModalVisible
    /\ cancelPromptGuard = {ConvOpen}
    /\ cancelRequesterName = "u7"

\* C19: a cancel_result for the open conversation whose status is given and is
\* not success clears cancelRequestPending and leaves the status as it was.
C19_DeclinedResult ==
    [][(/\ lastEvent'.kind = "cancel_result"
        /\ TargetConversationId(lastEvent'.payload) = ConvOpen
        /\ lastEvent'.payload.status = "declined")
          => /\ ~cancelRequestPending'
             /\ conversationStatus' = conversationStatus]_vars

\* The cancellation was pending in an ACTIVE session when the result declined
\* it; the flag is cleared and the session is ACTIVE.
C19_Witness ==
    /\ lastEvent.kind = "cancel_result"
    /\ TargetConversationId(lastEvent.payload) = ConvOpen
    /\ lastEvent.payload.status = "declined"
    /\ lastEvent.pending
    /\ ~cancelRequestPending
    /\ conversationStatus = "ACTIVE"

\* C20: cancel_session_manually is emitted only while cancelRequestPending is
\* false, by a customer, in a session that is WAITING or ACTIVE.
C20_OneHandshakeOutstanding ==
    [][lastEvent'.kind = "confirm_cancel"
          => /\ ~cancelRequestPending
             /\ isCustomer
             /\ normalizeConversationStatus(conversationStatus) \in {"WAITING", "ACTIVE"}]_vars

(***************************************************************************)
(* Properties of the timeline under pushes, merges and fetches.            *)
(***************************************************************************)
\* The order sending < sent < delivered < read of the delivery statuses.
StatusRank(status) ==
    CASE status = "sending" -> 1
      [] status = "sent" -> 2
      [] status = "delivered" -> 3
      [] status = "read" -> 4
      [] OTHER -> 0

\* C21: an entry that is in the timeline before and after a step, under the
\* same id, with delivery statuses on both sides, does not move backwards in
\* the order sending < sent < delivered < read.
C21_StatusMonotonic ==
    [][\A i \in 1..Len(messages), j \in 1..Len(messages') :
          (/\ messages[i].id = messages'[j].id
           /\ StatusRank(messages[i].status) > 0
           /\ StatusRank(messages'[j].status) > 0)
             => StatusRank(messages'[j].status) >= StatusRank(messages[i].status)]_vars

\* C22: a call of handleSendMessage while the session is not ACTIVE, or with
\* only blanks typed and no attachment selected, changes neither the timeline,
\* nor the input, nor the selected attachment, and starts no upload, emit or
\* REST request.
C22_RejectedSend ==
    [][(/\ lastEvent'.kind \in {"send", "send_rejected"}
        /\ \/ normalizeConversationStatus(conversationStatus) # "ACTIVE"
           \/ (Trim(input) = "" /\ selectedAttachment = NoSelection))
          => /\ messages' = messages
             /\ input' = input
             /\ selectedAttachment' = selectedAttachment
             /\ isSending' = isSending
             /\ send' = send]_vars

\* A text was typed, the session had ended, the user pressed send: the text
\* is still in the input and nothing was added or started.
C22_Witness ==
    /\ lastEvent.kind = "send_rejected"
    /\ normalizeConversationStatus(conversationStatus) = "ENDED"
    /\ input = "hi"
    /\ ~isSending
    /\ send.pc = "idle"

\* C23: a receive_message whose conversationId is another conversation's
\* leaves the timeline as it was.
C23_OtherConversationFiltered ==
    [][(/\ lastEvent'.kind = "receive_message"
        /\ lastEvent'.payload.conversationId = ConvOther)
          => messages' = messages]_vars

\* C24: a receive_message whose payload has no id, no sender and no content
\* leaves the timeline as it was.
C24_MalformedPushIsNoOp ==
    [][(/\ lastEvent'.kind = "receive_message"
        /\ lastEvent'.payload.id = Absent
        /\ lastEvent'.payload.senderId = Undefined
        /\ lastEvent'.payload.content = Undefined)
          => messages' = messages]_vars

(***************************************************************************)
(* Properties of the connection and of the join.                           *)
(***************************************************************************)
\* The step emits a conversation-scoped event on the socket: send_message
\* (the send reaches its socket await), cancel_session_manually (the
\* cancellation is confirmed) or respond_cancel_request (a prompt is answered).
EmitsConversationEvent ==
    \/ send'.pc = "socket" /\ send.pc # "socket"
    \/ lastEvent'.kind = "confirm_cancel"
    \/ lastEvent'.kind \in {"accept_incoming_cancel", "decline_incoming_cancel"}

\* C25: send_message, cancel_session_manually and respond_cancel_request are
\* emitted only while the join_conversation of the current connection has
\* been acknowledged with success.
C25_EmitsOnlyWhenJoined ==
    [][EmitsConversationEvent => joinState = "joined"]_vars

\* C26: every connect emits join_conversation anew (the join is under way
\* after the step) and clears socketJoinError; every successful join leaves
\* the same state, whether it is the first on the connection or a repetition:
\* joined, socketJoinError cleared, the socket connected, and nothing else of
\* the engine changed by the acknowledgment.
C26_RejoinOnReconnect ==
    [][/\ lastEvent'.kind = "connect"
            => ~socketConnected /\ socketConnected' /\ joinState' = "pending"
       /\ lastEvent'.kind = "join_ack_success"
            => /\ joinState' = "joined"
               /\ socketJoinError' = Undefined
               /\ socketConnected'
               /\ UNCHANGED <<messages, composerVars, sessionVars, promptVars, isSending,
                              send>>]_vars

\* The join was acknowledged with success for the second time on the socket,
\* after a reconnect.
C26_Witness ==
    /\ lastEvent.kind = "join_ack_success"
    /\ sockets[Len(sockets)].joined = 2
    /\ joinState = "joined"
    /\ socketJoinError = Undefined

\* C27: at most one socket is open, it is the one the lifecycle effect created
\* last, no socket has an inbound handler registered more than once, and a
\* socket that was torn down has none: an event the server delivers is applied
\* at most once.
C27_NoDuplicateFiring ==
    /\ Cardinality({i \in 1..Len(sockets) : sockets[i].open}) <= 1
    /\ \A i \in 1..Len(sockets) :
          /\ sockets[i].handlers <= 1
          /\ sockets[i].open => i = Len(sockets)
          /\ ~sockets[i].open => sockets[i].handlers = 0

\* The lifecycle effect ran again after the first socket had connected and
\* joined: the first socket is torn down, the second is connected.
C27_Witness ==
    /\ Len(sockets) = 2
    /\ ~sockets[1].open
    /\ sockets[1].joined > 0
    /\ socketConnected
    /\ lastEvent.kind = "connect"

(***************************************************************************)
(* Properties of the read-receipt synchronizer, the full fetch and the     *)
(* optimistic matching.                                                    *)
(***************************************************************************)
\* C28: syncReadReceipts starts its snapshot request only while the timeline
\* holds an outgoing, non-recalled message whose status is not read.
C28_SyncOnlyWhilePending ==
    [][lastEvent'.kind = "sync_start" => hasPendingReadReceipts(messages)]_vars

\* C29: after fetchMessages took a page, the timeline holds exactly the
\* records of the page, mapped, in ascending order of createdAt, whatever the
\* order of the page.
C29_FetchReplacesSorted ==
    [][lastEvent'.kind = "fetch_done"
          => LET page == lastEvent'.page
             IN /\ Len(messages') = Len(page)
                /\ \A k \in 1..Len(page) :
                      \E i \in 1..Len(messages') :
                          messages'[i] = mapApiMessage(page[k], Me, ConvOpen, now)
                /\ \A i, j \in 1..Len(messages') :
                      i < j => messages'[i].createdAt <= messages'[j].createdAt]_vars

\* The page held the later record first; the timeline holds the earlier first.
C29_Witness ==
    /\ lastEvent.kind = "fetch_done"
    /\ Len(lastEvent.page) = 2
    /\ lastEvent.page[1].createdAt > lastEvent.page[2].createdAt
    /\ Len(messages) = 2
    /\ messages[1].id = lastEvent.page[2].id
    /\ messages[2].id = lastEvent.page[1].id

\* C30: when a push for the viewer's own message with an id the timeline does
\* not hold finds several placeholders in status sending with its content, the
\* placeholder it replaces is the most recent of them (the one created last)
\* and the others stay as they are, in status sending.
C30_MostRecentCandidate ==
    [][(/\ lastEvent'.kind = "receive_message"
        /\ lastEvent'.payload.id # Absent
        /\ lastEvent'.payload.senderId = Me
        /\ ~HasId(messages, lastEvent'.payload.id)
        /\ Cardinality(Candidates(messages, PushedNext)) >= 2)
          => LET matching == Candidates(messages, PushedNext)
                 latest == CHOOSE i \in matching :
                              \A j \in matching :
                                  messages[j].createdAt <= messages[i].createdAt
             IN /\ ~HasId(messages', messages[latest].id)
                /\ \A j \in matching \ {latest} :
                      \E k \in 1..Len(messages') : messages'[k] = messages[j]]_vars

(***************************************************************************)
(* Properties of the merges, the session lifecycle and the send in flight.  *)
(***************************************************************************)
\* C31: after syncReadReceipts merged a non-empty page, every entry of the
\* timeline whose id the page holds carries the status, recalled flag, content,
\* attachments and createdAt of the page's record, also when only the content,
\* the attachments or the createdAt differed; and every id of the page is in
\* the timeline.
C31_MergeOverwritesFromServer ==
    [][(lastEvent'.kind = "sync_done" /\ lastEvent'.page # <<>>)
          => LET normalized == NormalizedPage(lastEvent'.page, now)
             IN /\ \A i \in 1..Len(messages'), k \in 1..Len(normalized) :
                      messages'[i].id = normalized[k].id
                      => /\ messages'[i].status = normalized[k].status
                         /\ messages'[i].isRecalled = normalized[k].isRecalled
                         /\ messages'[i].content = normalized[k].content
                         /\ messages'[i].attachments = normalized[k].attachments
                         /\ messages'[i].createdAt = normalized[k].createdAt
                /\ \A k \in 1..Len(normalized) : HasId(messages', normalized[k].id)]_vars

\* The transitions of the session lifecycle.
LifecycleSteps ==
    {<<"WAITING", "ACTIVE">>, <<"ACTIVE", "ENDED">>,
     <<"WAITING", "CANCELLED">>, <<"ACTIVE", "CANCELLED">>}

\* C32: once the session status is loaded (no longer UNKNOWN), every change of
\* it is a step of the lifecycle WAITING -> ACTIVE, ACTIVE -> ENDED,
\* WAITING or ACTIVE -> CANCELLED; ENDED and CANCELLED are never left.
C32_StatusFollowsLifecycle ==
    [][(/\ normalizeConversationStatus(conversationStatus) # "UNKNOWN"
        /\ normalizeConversationStatus(conversationStatus')
              # normalizeConversationStatus(conversationStatus))
          => <<normalizeConversationStatus(conversationStatus),
               normalizeConversationStatus(conversationStatus')>> \in LifecycleSteps]_vars

\* The entries of a list, as a set.
Entries(list) == {list[i] : i \in 1..Len(list)}

\* A push of a record handled first and a snapshot holding the same record
\* merged after it, and the two in the other order.
PushThenMerge(list, payload) ==
    SnapshotMerge(ApplyIncoming(list, mapApiMessage(payload, Me, ConvOpen, now)),
                  NormalizedPage(<<payload>>, now))
MergeThenPush(list, payload) ==
    ApplyIncoming(SnapshotMerge(list, NormalizedPage(<<payload>>, now)),
                  mapApiMessage(payload, Me, ConvOpen, now))

\* C33: for every timeline the component reaches and every server record, the
\* push of the record followed by the merge of a snapshot holding it, and the
\* merge followed by the push, end with the same set of entries.
C33_MergeOrderIrrelevant ==
    \A payload \in StoredPayloads :
        Entries(PushThenMerge(messages, payload)) = Entries(MergeThenPush(messages, payload))

\* C34: a push whose payload carries an id the timeline holds replaces the
\* entries of that id by the mapped payload, every field taken from it, and
\* leaves the length of the timeline and every other entry, at its position,
\* as they were.
C34_MergeById ==
    [][(lastEvent'.kind = "receive_message" /\ lastEvent'.known)
          => /\ Len(messages') = Len(messages)
             /\ \A i \in 1..Len(messages) :
                   messages'[i] = IF messages[i].id = PushedNext.id
                                  THEN PushedNext ELSE messages[i]]_vars

\* A push of the viewer's message, read, with an id the timeline of two
\* entries held, was handled: the entry is the mapped payload, the other
\* entry has another id.
C34_Witness ==
    /\ lastEvent.kind = "receive_message"
    /\ lastEvent.known
    /\ lastEvent.payload.status = "READ"
    /\ Len(messages) = 2
    /\ \E i, j \in 1..2 : /\ messages[i] = Pushed
                          /\ messages[j].id # Pushed.id

\* The steps that are the user's (deleting a message) or a full fetch.
UserOrFetchKinds == {"delete", "fetch_done", "refetch_done"}

\* C35: an entry in status failed keeps its id and its status in every step
\* that is neither the user's deletion of a message nor a full fetch.
C35_FailedIsTerminal ==
    [][lastEvent'.kind \notin UserOrFetchKinds
          => \A i \in 1..Len(messages) :
                messages[i].status = "failed"
                => \E j \in 1..Len(messages') :
                      /\ messages'[j].id = messages[i].id
                      /\ messages'[j].status = "failed"]_vars

LifecycleStatuses == {"WAITING", "ACTIVE", "ENDED", "CANCELLED"}

\* C36 as stated: the normalized session status is one of the lifecycle or
\* the UNKNOWN sentinel (every other value normalizes to UNKNOWN), and UNKNOWN
\* is fully locked.
C36_OutsideValuesAreUnknown ==
    /\ normalizeConversationStatus(conversationStatus)
          \in LifecycleStatuses \cup {"UNKNOWN"}
    /\ normalizeConversationStatus(conversationStatus) = "UNKNOWN"
          => /\ ~canSend
             /\ isInteractionLocked
             /\ \A callTargetId \in {Undefined, "uid"} : isCallDisabled(callTargetId)

\* C36 amended: a missing or empty status normalizes to UNKNOWN and every
\* other value to its upper-case form, whether or not the lifecycle has it;
\* every normalized status other than ACTIVE, UNKNOWN and the values outside
\* the lifecycle included, is fully locked: sending, attachment selection and
\* video call are disabled.
C36_NotActiveIsLocked ==
    /\ normalizeConversationStatus(Undefined) = "UNKNOWN"
    /\ normalizeConversationStatus("") = "UNKNOWN"
    /\ \A status \in LockMetas \ {Undefined, ""} :
          normalizeConversationStatus(status) = ToUpperCase(status)
    /\ normalizeConversationStatus(conversationStatus) # "ACTIVE"
          => /\ ~canSend
             /\ isInteractionLocked
             /\ selectedAttachment = NoSelection
             /\ \A callTargetId \in {Undefined, "uid"} : isCallDisabled(callTargetId)

\* A conversation record with the status paused was fetched while a text was
\* typed: the status held is PAUSED, not UNKNOWN, and the composer is locked.
C36_Witness ==
    /\ lastEvent.kind = "fetch_done"
    /\ conversationStatus = "PAUSED"
    /\ Trim(input) = "hi"
    /\ ~canSend
    /\ isInteractionLocked

\* The timeline holds the message of the running send: its placeholder, or an
\* outgoing entry with the text sent under a durable id.
HoldsMessageInFlight ==
    \/ HasId(messages, send.localId)
    \/ \E i \in 1..Len(messages) :
          /\ messages[i].id \in ServerIds
          /\ messages[i].role = "outgoing"
          /\ messages[i].content = send.text

\* C38: while a send is in flight (from the optimistic insert until the send
\* settles), the timeline holds its placeholder or the durable entry that
\* replaced it, whatever fetch or snapshot merge completes meanwhile.
C38_OptimisticEntryKept ==
    send.pc # "idle" => HoldsMessageInFlight

\* The steps in which a send completes: the success acknowledgment, the REST
\* response, the silent refetch after an empty response, a failure.
SendCompletionKinds ==
    {"socket_ack_success", "rest_confirmed", "refetch_done", "refetch_failed",
     "rest_failed", "upload_failed"}

\* C39: a call of handleSendMessage while isSending is true returns early,
\* leaving the timeline and the running send as they are; a send is running
\* exactly while isSending is true; and every step in which a send completes
\* leaves isSending false.
C39_OneSendAtATime ==
    [][/\ (lastEvent'.kind \in {"send", "send_rejected"} /\ isSending)
            => /\ lastEvent'.kind = "send_rejected"
               /\ messages' = messages
               /\ send' = send
       /\ isSending' <=> send'.pc # "idle"
       /\ lastEvent'.kind \in SendCompletionKinds => ~isSending']_vars

\* handleSendMessage was called with a text typed while a send was running:
\* the timeline holds the one placeholder and the send is still running.
C39_Witness ==
    /\ lastEvent.kind = "send_rejected"
    /\ isSending
    /\ isConversationActive
    /\ Trim(input) = "hi"
    /\ send.pc # "idle"
    /\ Len(messages) = 1

\* The ids of the records of a page.
PageIds(page) == {page[k].id : k \in 1..Len(page)}

\* C40: the merge of syncReadReceipts removes no entry: every id of the
\* timeline is still in it, the timeline does not get shorter, an entry whose
\* id the page does not hold is kept as it was, and the empty page leaves the
\* timeline as it is.
C40_MergeNeverRemoves ==
    [][lastEvent'.kind = "sync_done"
          => /\ \A i \in 1..Len(messages) : HasId(messages', messages[i].id)
             /\ Len(messages') >= Len(messages)
             /\ \A i \in 1..Len(messages) :
                   messages[i].id \notin PageIds(lastEvent'.page)
                   => \E j \in 1..Len(messages') : messages'[j] = messages[i]
             /\ lastEvent'.page = <<>> => messages' = messages]_vars

\* A sync merged a page of one record into a timeline of one entry with
\* another id: the timeline holds both.
C40_Witness ==
    /\ lastEvent.kind = "sync_done"
    /\ Len(lastEvent.page) = 1
    /\ lastEvent.size = 1
    /\ Len(messages) = 2
    /\ \E i \in 1..2 : messages[i].id \notin PageIds(lastEvent.page)
    /\ \E i \in 1..2 : messages[i].id \in PageIds(lastEvent.page)

====
